---- MODULE Spec2Model ----
(***************************************************************************)
(* A model of the request-dispatch pipeline of @hectoday/http:             *)
(* createRouter (match, handle), parseQuery, parseBody, validateInputs and *)
(* setupHttp.fetch with its three lifecycle hooks.                          *)
(*                                                                         *)
(* User code (hooks, guards, handlers, the validator adapter) is the       *)
(* environment: each call of it is an action that picks one of the         *)
(* outcomes the callback can produce.  A value that JavaScript identifies  *)
(* by reference (a route descriptor, a context, a response) carries the    *)
(* identity in the model as an index or a "maker" field.                   *)
(***************************************************************************)
EXTENDS Naturals, Sequences, FiniteSets

VARIABLES
    handlers,    \* Config.handlers: the route table given to createRouter
    validator,   \* Config.validator is configured (BOOLEAN)
    onRequest,   \* Config.onRequest is configured (BOOLEAN)
    onResponse,  \* Config.onResponse is configured (BOOLEAN)
    onError,     \* "default" (defaultOnError) or "custom"
    sharedLocals, \* the properties of the one object of the application that
                 \* its pre-routing hook may return for every request
    rq,          \* per request: the position and locals of one fetch() call
    matchIn,     \* arguments of a direct router.match(method, url) call
    matchOut,    \* its result
    gateIn,      \* arguments of a direct parseBody + validateInputs call
    gateOut,     \* its result
    groupIn,     \* the expression of a direct group(...) call
    groupOut,    \* its result
    queryIn,     \* the query string of a direct parseQuery(url) call
    queryOut,    \* its result
    limitIn,     \* a request sent to a route guarded by maxBodyBytes(n)
    limitOut     \* the guard's result and whether the handler ran

vars == <<handlers, validator, onRequest, onResponse, onError, sharedLocals, rq,
          matchIn, matchOut, gateIn, gateOut, groupIn, groupOut, queryIn, queryOut, limitIn, limitOut>>

config == <<handlers, validator, onRequest, onResponse, onError>>

----------------------------------------------------------------------------
(* Bounds *)

\* requests the model holds; Spec follows one of them from fetch to its end
MaxReq == 2
\* longest route table drawn for direct match calls
MaxRoutes == 3

ReqIds == 1..MaxReq

----------------------------------------------------------------------------
(* Values *)

Undefined == [t |-> "undefined"]

\* {} : an object with no own properties.  Objects are functions from keys.
EmptyObj == [k \in {} |-> Undefined]

\* { ...a, ...b } : b's keys win, a's other keys stay
Spread2(a, b) ==
    [k \in (DOMAIN a) \cup (DOMAIN b) |-> IF k \in DOMAIN b THEN b[k] ELSE a[k]]

----------------------------------------------------------------------------
(* Route descriptors (route.ts: Handler) *)

Lit(s) == [kind |-> "lit", name |-> s]
Par(n) == [kind |-> "param", name |-> n]

NoSchemas == [t |-> "none"]
Schemas(p, q, b) == [t |-> "schemas", params |-> p, query |-> q, body |-> b]

Route(m, p, g, s) == [method |-> m, path |-> p, guards |-> g, request |-> s]

\* a buggy variant: any request declaration makes the body be read
HasRequestDecl(h) == h.request.t = "schemas"

\* handler.request?.body : a body schema is declared
HasBodySchema(h) == h.request.t = "schemas" /\ h.request.body

\* the route declares at least one schema
DeclaresSchema(h) ==
    h.request.t = "schemas" /\ (h.request.params \/ h.request.query \/ h.request.body)

----------------------------------------------------------------------------
(* Pattern Matcher: createRouter.match *)

\* URLPattern({pathname: template}).exec(url): every segment is a literal
\* that must be equal or a named parameter that takes one segment; the other
\* URL components (the query string) are wildcards.
PatternExec(template, url) ==
    /\ Len(template) = Len(url.path)
    /\ \A i \in 1..Len(template) :
          template[i].kind = "lit" => template[i].name = url.path[i]

\* result.pathname.groups copied into params
PatternGroups(template, url) ==
    LET names == {template[i].name : i \in {j \in 1..Len(template) : template[j].kind = "param"}}
    IN [n \in names |->
          url.path[CHOOSE i \in 1..Len(template) : template[i] = Par(n)]]

NoMatch == [t |-> "null"]

\* a buggy variant: the wildcard is not recognised
MethodOkNoWildcard(h, method) == h.method = method

\* a buggy variant: the method is not compared
MethodOkAny(h, method) == TRUE

\* route.handler.method !== "*" && route.handler.method !== method -> continue
MethodOk(h, method) == h.method = "*" \/ h.method = method

RECURSIVE MatchFrom(_, _, _, _)
MatchFrom(hs, i, method, url) ==
    IF i > Len(hs) THEN NoMatch
    ELSE IF ~MethodOk(hs[i], method) THEN MatchFrom(hs, i + 1, method, url)
    ELSE IF PatternExec(hs[i].path, url)
         THEN [t |-> "match", index |-> i, handler |-> hs[i],
               params |-> PatternGroups(hs[i].path, url)]
         ELSE MatchFrom(hs, i + 1, method, url)

\* a buggy variant: the last matching route wins
RECURSIVE MatchLastFrom(_, _, _, _)
MatchLastFrom(hs, i, method, url) ==
    IF i < 1 THEN NoMatch
    ELSE IF MethodOk(hs[i], method) /\ PatternExec(hs[i].path, url)
         THEN [t |-> "match", index |-> i, handler |-> hs[i],
               params |-> PatternGroups(hs[i].path, url)]
         ELSE MatchLastFrom(hs, i - 1, method, url)

MatchLast(hs, method, url) == MatchLastFrom(hs, Len(hs), method, url)

Match(hs, method, url) == MatchFrom(hs, 1, method, url)

----------------------------------------------------------------------------
(* Requests *)

Methods == {"GET", "POST"}

Paths == { <<"users", "me">>, <<"users", "1">>, <<"users">>,
           <<"items", "1">>, <<"cfg">>, <<"missing">> }

\* a GET request cannot carry a body (the Request constructor rejects it)
NoBody == [t |-> "none"]
Stream(text) == [t |-> "stream", text |-> text]

ValidJson == "{\"a\":1}"
BodyTexts == {"", ValidJson, "not json{"}
Bodies == {NoBody} \cup {Stream(x) : x \in BodyTexts}

Pair(k, v) == [key |-> k, value |-> v]
\* the query string of the requests: ?q=x&r=y&q=z
Queries == { <<Pair("q", "x"), Pair("r", "y"), Pair("q", "z")>> }

Requests ==
    {[method |-> m, url |-> [path |-> p, query |-> q], body |-> b] :
        m \in Methods, p \in Paths, q \in Queries, b \in Bodies}
    \ {x \in [method : {"GET"}, url : [path : Paths, query : Queries], body : Bodies] :
          x.body # NoBody}

----------------------------------------------------------------------------
(* Raw Extractor: parseQuery, parseBody *)

Str(v) == [t |-> "string", s |-> v]
List(v) == [t |-> "list", l |-> v]

\* result is a plain {}: result[key] also finds what Object.prototype holds
InheritedKeys == {"toString", "constructor"}
Inherited(key) == [t |-> "inherited", of |-> key]
\* an array whose first element is an inherited member, then strings
MixedList(first, rest) == [t |-> "mixed", first |-> first, l |-> rest]

\* const existing = result[key]
QueryGet(result, key) ==
    IF key \in DOMAIN result THEN result[key]
    ELSE IF key \in InheritedKeys THEN Inherited(key)
    ELSE Undefined

\* one iteration of the loop over parsed.searchParams
QueryPut(result, p) ==
    LET existing == QueryGet(result, p.key)
    IN IF existing = Undefined
       THEN Spread2(result, [k \in {p.key} |-> Str(p.value)])
       ELSE IF existing.t \in {"list", "mixed"}
            THEN [result EXCEPT ![p.key] = [@ EXCEPT !.l = Append(@, p.value)]]
            ELSE IF existing.t = "inherited"
                 THEN Spread2(result, [k \in {p.key} |-> MixedList(existing, <<p.value>>)])
                 ELSE [result EXCEPT ![p.key] = List(<<@.s, p.value>>)]

RECURSIVE ParseQueryFrom(_, _, _)
ParseQueryFrom(pairs, i, result) ==
    IF i > Len(pairs) THEN result
    ELSE ParseQueryFrom(pairs, i + 1, QueryPut(result, pairs[i]))

ParseQuery(url) == ParseQueryFrom(url.query, 1, EmptyObj)

\* JSON.parse on the texts of the model
JsonNull == [t |-> "json null"]
JsonObj == [t |-> "object", a |-> 1]
JsonOk(v) == [ok |-> TRUE, value |-> v]
JsonThrow == [ok |-> FALSE, value |-> Undefined]
JsonParse(text) ==
    IF text = ValidJson THEN JsonOk(JsonObj)
    ELSE IF text = "null" THEN JsonOk(JsonNull)
    ELSE JsonThrow

SyntaxError(from) == [t |-> "SyntaxError", from |-> from]
BodyResult(parsed, error) == [parsed |-> parsed, error |-> error]

\* a buggy variant: a JSON syntax error is swallowed
ParseBodyTextSwallow(text) ==
    IF text = "" THEN BodyResult(Undefined, Undefined)
    ELSE BodyResult(JsonParse(text).value, Undefined)

\* parseBody once request.text() has resolved with text
ParseBodyText(text) ==
    IF text = "" THEN BodyResult(Undefined, Undefined)
    ELSE IF JsonParse(text).ok
         THEN BodyResult(JsonParse(text).value, Undefined)
         ELSE BodyResult(Undefined, SyntaxError("JSON.parse"))

\* parseBody when request.text() rejects: the catch wraps the TypeError
ParseBodyReadFailed == BodyResult(Undefined, SyntaxError("Invalid JSON"))

\* a buggy variant: the empty text is handed to JSON.parse like any other
ParseBodyEmptyIsError(body, readOk) ==
    IF body = NoBody THEN BodyResult(Undefined, Undefined)
    ELSE IF ~readOk THEN BodyResult(Undefined, SyntaxError("Invalid JSON"))
    ELSE IF JsonParse(body.text).ok
         THEN BodyResult(JsonParse(body.text).value, Undefined)
         ELSE BodyResult(Undefined, SyntaxError("JSON.parse"))

\* parseBody(request) as a whole: no body, a read that fails, or the text
ParseBody(body, readOk) ==
    IF body = NoBody THEN BodyResult(Undefined, Undefined)
    ELSE IF ~readOk THEN ParseBodyReadFailed
    ELSE ParseBodyText(body.text)

----------------------------------------------------------------------------
(* Thrown values and responses *)

\* what a callback can throw: an ordinary (extensible) object such as an
\* Error, a primitive (string, number), or null / undefined
ThrownKinds == {"error", "primitive", "nullish"}
Thrown(kind, by) == [kind |-> kind, by |-> by]

Resp(status, body, maker) == [status |-> status, body |-> body, maker |-> maker]

\* new Response("Not Found", { status: 404 })
NotFoundResponse == Resp(404, "Not Found", "router")

\* Response.json({ error: "Internal Server Error" }, { status: 500 })
DefaultErrorResponse == Resp(500, "{\"error\":\"Internal Server Error\"}", "defaultOnError")

----------------------------------------------------------------------------
(* Validation Gate: validateInputs *)

Parts == <<"params", "query", "body">>

Issue(part, message) == [part |-> part, path |-> <<>>, message |-> message]

\* the validator adapter (user code): the result kinds of Validator.validate
VKinds == {"ok", "okCoerced", "fail", "failErr", "throw"}
Coerced(input) == [t |-> "coerced", of |-> input]
ValidatorValidate(kind, tk, input, part) ==
    CASE kind = "ok" -> [t |-> "ok", value |-> input]
      [] kind = "okCoerced" -> [t |-> "ok", value |-> Coerced(input)]
      [] kind = "fail" ->
            [t |-> "fail", issues |-> <<Issue(part, "invalid")>>, error |-> Undefined]
      [] kind = "failErr" ->
            [t |-> "fail",
             issues |-> <<Issue(part, "invalid"), Issue(part, "required")>>,
             error |-> [t |-> "schema error", part |-> part]]
      [] OTHER -> [t |-> "throw", value |-> Thrown(tk, "validator")]

InputOk(p, q, b) == [ok |-> TRUE, params |-> p, query |-> q, body |-> b]
\* a buggy variant: the failure variant also carries the raw values as if validated
InputErrWithValues(failed, issues, received, errors) ==
    [ok |-> FALSE, failed |-> failed, issues |-> issues,
     received |-> received, errors |-> errors,
     params |-> received.params, query |-> received.query, body |-> received.body]

\* a buggy variant: the raw errors of the failing parts are dropped
InputErrWithoutErrors(failed, issues, received, errors) ==
    [ok |-> FALSE, failed |-> failed, issues |-> issues,
     received |-> received, errors |-> Undefined]

InputErr(failed, issues, received, errors) ==
    [ok |-> FALSE, failed |-> failed, issues |-> issues,
     received |-> received, errors |-> errors]

\* the local variables of validateInputs before the first part
ValidateStart(raw) ==
    [failed |-> <<>>, issues |-> <<>>, errors |-> EmptyObj,
     values |-> raw, calls |-> <<>>, thrown |-> Undefined]

\* a buggy variant: validation stops at the first failing part
ValidatePartStopAtFailure(acc, part, schemas, raw, bodyParseError, res) ==
    IF acc.thrown # Undefined \/ ~schemas[part] \/ Len(acc.failed) > 0 THEN acc
    ELSE IF part = "body" /\ bodyParseError # Undefined
    THEN [acc EXCEPT !.failed = Append(@, "body"),
                     !.issues = Append(@, Issue("body", "Invalid JSON")),
                     !.errors = Spread2(@, [k \in {"body"} |-> bodyParseError])]
    ELSE IF res.t = "throw"
    THEN [acc EXCEPT !.calls = Append(@, part), !.thrown = res.value]
    ELSE IF res.t = "ok"
    THEN [acc EXCEPT !.calls = Append(@, part), !.values[part] = res.value]
    ELSE [acc EXCEPT !.calls = Append(@, part),
                     !.failed = Append(@, part),
                     !.issues = @ \o res.issues,
                     !.errors = IF res.error # Undefined
                                THEN Spread2(@, [k \in {part} |-> res.error])
                                ELSE @]

\* a buggy variant: the adapter's value is dropped and the raw value kept
ValidatePartKeepsRaw(acc, part, schemas, raw, bodyParseError, res) ==
    IF acc.thrown # Undefined \/ ~schemas[part] THEN acc
    ELSE IF part = "body" /\ bodyParseError # Undefined
    THEN [acc EXCEPT !.failed = Append(@, "body"),
                     !.issues = Append(@, Issue("body", "Invalid JSON")),
                     !.errors = Spread2(@, [k \in {"body"} |-> bodyParseError])]
    ELSE IF res.t = "throw"
    THEN [acc EXCEPT !.calls = Append(@, part), !.thrown = res.value]
    ELSE IF res.t = "ok"
    THEN [acc EXCEPT !.calls = Append(@, part)]
    ELSE [acc EXCEPT !.calls = Append(@, part),
                     !.failed = Append(@, part),
                     !.issues = @ \o res.issues,
                     !.errors = IF res.error # Undefined
                                THEN Spread2(@, [k \in {part} |-> res.error])
                                ELSE @]

\* one "Validate <part>" block, given the adapter's result for the part
ValidatePart(acc, part, schemas, raw, bodyParseError, res) ==
    IF acc.thrown # Undefined \/ ~schemas[part] THEN acc
    ELSE IF part = "body" /\ bodyParseError # Undefined
    THEN [acc EXCEPT !.failed = Append(@, "body"),
                     !.issues = Append(@, Issue("body", "Invalid JSON")),
                     !.errors = Spread2(@, [k \in {"body"} |-> bodyParseError])]
    ELSE IF res.t = "throw"
    THEN [acc EXCEPT !.calls = Append(@, part), !.thrown = res.value]
    ELSE IF res.t = "ok"
    THEN [acc EXCEPT !.calls = Append(@, part), !.values[part] = res.value]
    ELSE [acc EXCEPT !.calls = Append(@, part),
                     !.failed = Append(@, part),
                     !.issues = @ \o res.issues,
                     !.errors = IF res.error # Undefined
                                THEN Spread2(@, [k \in {part} |-> res.error])
                                ELSE @]

\* a buggy variant: the missing validator is not detected
ValidatorMissingIgnored(hasValidator, schemas) == FALSE

\* if (!validator) throw new Error("Validator is required ...")
ValidatorMissing(hasValidator, schemas) == schemas.t = "schemas" /\ ~hasValidator

\* a buggy variant: the body is validated first, the params last
ValidateInputsBodyFirst(hasValidator, schemas, raw, bodyParseError, results) ==
    IF schemas.t = "none"
    THEN [t |-> "return", calls |-> <<>>,
          input |-> InputOk(raw.params, raw.query, raw.body)]
    ELSE IF ValidatorMissing(hasValidator, schemas)
    THEN [t |-> "throw", calls |-> <<>>,
          error |-> Thrown("error", "validateInputs")]
    ELSE
      LET a0 == ValidateStart(raw)
          a1 == ValidatePart(a0, "body", schemas, raw, bodyParseError, results.body)
          a2 == ValidatePart(a1, "query", schemas, raw, bodyParseError, results.query)
          a3 == ValidatePart(a2, "params", schemas, raw, bodyParseError, results.params)
      IN IF a3.thrown # Undefined
         THEN [t |-> "throw", calls |-> a3.calls, error |-> a3.thrown]
         ELSE IF Len(a3.failed) > 0
         THEN [t |-> "return", calls |-> a3.calls,
               input |-> InputErr(a3.failed, a3.issues, raw,
                                  IF DOMAIN a3.errors # {} THEN a3.errors ELSE Undefined)]
         ELSE [t |-> "return", calls |-> a3.calls,
               input |-> InputOk(a3.values.params, a3.values.query, a3.values.body)]

\* validateInputs(validator, schemas, raw, bodyParseError); results[part] is
\* what validator.validate returns (or throws) for that part if it is called
ValidateInputs(hasValidator, schemas, raw, bodyParseError, results) ==
    IF schemas.t = "none"
    THEN [t |-> "return", calls |-> <<>>,
          input |-> InputOk(raw.params, raw.query, raw.body)]
    ELSE IF ValidatorMissing(hasValidator, schemas)
    THEN [t |-> "throw", calls |-> <<>>,
          error |-> Thrown("error", "validateInputs")]
    ELSE
      LET a0 == ValidateStart(raw)
          a1 == ValidatePart(a0, "params", schemas, raw, bodyParseError, results.params)
          a2 == ValidatePart(a1, "query", schemas, raw, bodyParseError, results.query)
          a3 == ValidatePart(a2, "body", schemas, raw, bodyParseError, results.body)
      IN IF a3.thrown # Undefined
         THEN [t |-> "throw", calls |-> a3.calls, error |-> a3.thrown]
         ELSE IF Len(a3.failed) > 0
         THEN [t |-> "return", calls |-> a3.calls,
               input |-> InputErr(a3.failed, a3.issues, raw,
                                  IF DOMAIN a3.errors # {} THEN a3.errors ELSE Undefined)]
         ELSE [t |-> "return", calls |-> a3.calls,
               input |-> InputOk(a3.values.params, a3.values.query, a3.values.body)]

----------------------------------------------------------------------------
(* Contexts and user callbacks *)

Raw(p, q, b) == [params |-> p, query |-> q, body |-> b]

\* a Context: request is the identity of the Request object
Context(r, raw, input, locals) ==
    [request |-> r, raw |-> raw, input |-> input, locals |-> locals]

\* the context built in the not-found branch of handle and in fetch's catch
MinimalContext(r) ==
    Context(r, Raw(EmptyObj, EmptyObj, Undefined),
            InputOk(EmptyObj, EmptyObj, Undefined), EmptyObj)

Guards == {"g1", "g2", "g3"}

\* the locals a guard may return with allow: it sets the shared key "user"
\* and a key of its own; the value names the guard that set it
GuardPatches(g) == { [k \in {"user", g} |-> g] }

DenyResponse(g) == Resp(403, "denied", g)

HandlerResponses == { Resp(200, "ok", "handler"), Resp(400, "bad input", "handler") }

\* what the pre-routing hook may resolve to: nothing, a locals patch, or
\* another value (a Response, which has no own enumerable properties)
Obj(props) == [t |-> "object", props |-> props]
HookPatch == [k \in {"user", "hook"} |-> "hook"]
\* the hook may also return one and the same object for every request
SharedRef == [t |-> "shared"]
HookReturns == { Undefined, Obj(HookPatch), SharedRef, [t |-> "response"] }

\* initialLocals || {}
OrEmpty(v) == IF v = Undefined THEN Obj(EmptyObj) ELSE v

\* the own enumerable properties { ...v } copies
OwnProps(v) ==
    IF v.t = "object" THEN v.props
    ELSE IF v.t = "shared" THEN sharedLocals
    ELSE EmptyObj

WrappedResponse == Resp(200, "wrapped", "onResponse")
CustomErrorResponse == Resp(500, "custom", "onError")

Event(ev, arg, ctx) == [ev |-> ev, arg |-> arg, ctx |-> ctx]

----------------------------------------------------------------------------
(* State *)

IdleRequest ==
    [pc |-> "idle", request |-> Undefined, initialLocals |-> Undefined,
     matched |-> NoMatch, query |-> EmptyObj,
     body |-> BodyResult(Undefined, Undefined), input |-> Undefined,
     ctxs |-> <<>>, cur |-> 0, gi |-> 0, result |-> Undefined,
     err |-> Undefined, thrown |-> Undefined, final |-> Undefined, reads |-> 0,
     patches |-> <<>>, log |-> <<>>]

\* the application of the model: a literal route before a parameter route,
\* a specific method before a wildcard on the same path, guards, schemas
AppHandlers == <<
    Route("*", <<Lit("users"), Lit("me")>>, <<>>, NoSchemas),
    Route("GET", <<Lit("users"), Par("id")>>, <<"g1", "g2">>, Schemas(TRUE, FALSE, FALSE)),
    Route("POST", <<Lit("users")>>, <<"g1", "g2", "g3">>, Schemas(FALSE, FALSE, TRUE)),
    Route("POST", <<Lit("items"), Par("id")>>, <<>>, Schemas(TRUE, TRUE, TRUE)),
    Route("*", <<Lit("users"), Par("id")>>, <<"g2">>, Schemas(TRUE, TRUE, FALSE)),
    Route("*", <<Lit("cfg")>>, <<>>, Schemas(FALSE, FALSE, FALSE)) >>

Init ==
    /\ handlers = AppHandlers
    /\ validator \in BOOLEAN
    /\ onRequest \in BOOLEAN
    /\ onResponse \in BOOLEAN
    /\ onError \in {"default", "custom"}
    /\ sharedLocals = HookPatch
    /\ rq = [r \in ReqIds |-> IdleRequest]
    /\ matchIn = Undefined
    /\ matchOut = Undefined
    /\ gateIn = Undefined
    /\ gateOut = Undefined
    /\ groupIn = Undefined
    /\ groupOut = Undefined
    /\ queryIn = Undefined
    /\ queryOut = Undefined
    /\ limitIn = Undefined
    /\ limitOut = Undefined

Set(r, rec) ==
    rq' = [rq EXCEPT ![r] = rec] /\ UNCHANGED <<config, sharedLocals, matchIn, matchOut, gateIn, gateOut,
                  groupIn, groupOut, queryIn, queryOut, limitIn, limitOut>>

Logged(q, ev) == [q EXCEPT !.log = Append(@, ev)]

----------------------------------------------------------------------------
(* setupHttp.fetch and createRouter.handle, one action per step *)

\* the host runtime calls app.fetch(request)
Receive(r) ==
    /\ rq[r].pc = "idle"
    /\ \E q \in Requests : Set(r, [rq[r] EXCEPT !.pc = "fetch", !.request = q])

\* const initialLocals = onRequest ? await onRequest(request) : {}
FetchStart(r) ==
    /\ rq[r].pc = "fetch"
    /\ IF onRequest
       THEN Set(r, Logged([rq[r] EXCEPT !.pc = "onRequest"], Event("onRequest", "", 0)))
       ELSE Set(r, [rq[r] EXCEPT !.pc = "handle", !.initialLocals = Obj(EmptyObj)])

\* a buggy variant: a Response returned by the hook ends the request
OnRequestReturnMayRespond(r) ==
    /\ rq[r].pc = "onRequest"
    /\ \E v \in HookReturns :
          IF v = [t |-> "response"]
          THEN Set(r, [rq[r] EXCEPT !.pc = "done", !.initialLocals = v,
                                    !.final = Resp(200, "early", "onRequest")])
          ELSE Set(r, [rq[r] EXCEPT !.pc = "handle", !.initialLocals = v])

\* the hook resolves: with nothing, with a locals patch or with another value
OnRequestReturn(r) ==
    /\ rq[r].pc = "onRequest"
    /\ \E v \in HookReturns :
          Set(r, [rq[r] EXCEPT !.pc = "handle", !.initialLocals = v])

OnRequestThrow(r) ==
    /\ rq[r].pc = "onRequest"
    /\ \E k \in ThrownKinds :
          Set(r, [rq[r] EXCEPT !.pc = "catch",
                               !.thrown = Thrown(k, "onRequest"),
                               !.err = [value |-> Thrown(k, "onRequest"), ctx |-> 0]])

\* a buggy variant: the earlier value wins on equal keys
MergeLocalsKeepOld(locals, patch) == Spread2(patch, locals)

\* locals: { ...context.locals, ...guardResult.locals }
MergeLocals(locals, patch) == Spread2(locals, patch)

\* a buggy variant: the error is rethrown without the context
AttachContextDropped(thrown, cur) == [value |-> thrown, ctx |-> 0]

\* (error as any).context = context; throw error  -- in a module (strict
\* mode) the assignment itself throws a TypeError when error is a primitive,
\* null or undefined, and that TypeError is what leaves handle
AttachContext(thrown, cur) ==
    IF thrown.kind = "error"
    THEN [value |-> thrown, ctx |-> cur]
    ELSE [value |-> Thrown("error", "TypeError"), ctx |-> 0]


\* a buggy variant: the locals of the current context object are assigned in place
AllowContextInPlace(q, patch) ==
    [q EXCEPT !.ctxs[q.cur].locals = MergeLocals(@, patch)]

\* a buggy variant: the new context is rebuilt without the input state and
\* the raw body
AllowContextRebuilt(q, patch) ==
    [q EXCEPT !.ctxs = Append(@, [q.ctxs[q.cur] EXCEPT
                                     !.locals = Spread2(@, patch),
                                     !.raw.body = Undefined,
                                     !.input = [ok |-> TRUE, params |-> EmptyObj,
                                                query |-> EmptyObj, body |-> Undefined]]),
              !.cur = Len(q.ctxs) + 1]

\* context = { ...context, locals: ... } : a new context object
AllowContext(q, patch) ==
    [q EXCEPT !.ctxs = Append(@, [q.ctxs[q.cur] EXCEPT
                                     !.locals = MergeLocals(@, patch)]),
              !.cur = Len(q.ctxs) + 1]

\* a buggy variant: the router answers 405 when the path is registered under
\* another method
NotFoundMethodNotAllowed(r, q) ==
    [q EXCEPT !.ctxs = Append(@, MinimalContext(r)),
              !.result = [response |->
                             IF \E i \in 1..Len(handlers) :
                                   PatternExec(handlers[i].path, q.request.url)
                             THEN Resp(405, "Method Not Allowed", "router")
                             ELSE NotFoundResponse,
                          context |-> Len(q.ctxs) + 1],
              !.pc = "handled"]

\* a buggy variant: the unread body is drained before the 404 is returned
NotFoundDrainsBody(r, q) ==
    [q EXCEPT !.ctxs = Append(@, MinimalContext(r)),
              !.result = [response |-> NotFoundResponse, context |-> Len(q.ctxs) + 1],
              !.reads = IF q.request.body # NoBody THEN @ + 1 ELSE @,
              !.pc = "handled"]

\* if (!matched) return { response: new Response("Not Found", ...), context }
NotFound(r, q) ==
    [q EXCEPT !.ctxs = Append(@, MinimalContext(r)),
              !.result = [response |-> NotFoundResponse, context |-> Len(q.ctxs) + 1],
              !.pc = "handled"]

\* router.handle up to its first await: match, the not-found branch,
\* parseQuery, and parseBody up to request.text()
Handle(r) ==
    /\ rq[r].pc = "handle"
    /\ LET q == rq[r]
           m == Match(handlers, q.request.method, q.request.url)
           q1 == Logged([q EXCEPT !.matched = m], Event("match", "", 0))
       IN IF m = NoMatch
          THEN Set(r, NotFound(r, q1))
          ELSE LET q2 == [q1 EXCEPT !.query = ParseQuery(q.request.url)]
               IN IF HasBodySchema(m.handler) /\ q.request.body # NoBody
                  THEN Set(r, Logged([q2 EXCEPT !.reads = @ + 1, !.pc = "readBody"],
                                     Event("readBody", "", 0)))
                  ELSE Set(r, [q2 EXCEPT !.pc = "validate"])

\* a buggy variant: a failed read is not caught and leaves handle as a throw
BodyReadRaises(r) ==
    /\ rq[r].pc = "readBody"
    /\ \/ Set(r, [rq[r] EXCEPT !.pc = "validate",
                                !.body = ParseBodyText(rq[r].request.body.text)])
       \/ Set(r, [rq[r] EXCEPT !.pc = "catch",
                                !.thrown = Thrown("error", "parseBody"),
                                !.err = [value |-> Thrown("error", "parseBody"),
                                         ctx |-> 0]])

\* await request.text() completes; the rest of parseBody
BodyRead(r) ==
    /\ rq[r].pc = "readBody"
    /\ \/ Set(r, [rq[r] EXCEPT !.pc = "validate",
                                !.body = ParseBodyText(rq[r].request.body.text)])
       \/ Set(r, [rq[r] EXCEPT !.pc = "validate", !.body = ParseBodyReadFailed])

\* a buggy variant: a failed validation is answered by the framework with a 400
InitialContextOr400(r, q, raw, input) ==
    IF input.ok
    THEN [q EXCEPT !.input = input,
                   !.ctxs = Append(@, Context(r, raw, input,
                                Spread2(EmptyObj, OwnProps(OrEmpty(q.initialLocals))))),
                   !.cur = Len(q.ctxs) + 1, !.gi = 1, !.pc = "guards"]
    ELSE [q EXCEPT !.input = input,
                   !.ctxs = Append(@, Context(r, raw, input, EmptyObj)),
                   !.result = [response |-> Resp(400, "Bad Request", "router"),
                               context |-> Len(q.ctxs) + 1],
                   !.pc = "handled"]

\* let context = { request, raw, input, locals: { ...initialLocals } } and
\* the entry into the guard loop
InitialContext(r, q, raw, input) ==
    [q EXCEPT !.input = input,
              !.ctxs = Append(@, Context(r, raw, input,
                           Spread2(EmptyObj, OwnProps(OrEmpty(q.initialLocals))))),
              !.cur = Len(q.ctxs) + 1,
              !.gi = 1,
              !.pc = "guards"]

\* the adapter's behaviours in a full request: it transforms the value, fails
\* with issues and a raw error, or throws; a part without a schema is not
\* validated, so its behaviour is left at "ok"
VChoices(schemas) ==
    {kinds \in [{"params", "query", "body"} -> {"ok", "okCoerced", "failErr", "throw"}] :
        \A p \in DOMAIN kinds :
            IF schemas.t = "none" \/ ~schemas[p]
            THEN kinds[p] = "ok" ELSE kinds[p] # "ok"}

\* validateInputs and the construction of the initial context
Validate(r) ==
    /\ rq[r].pc = "validate"
    /\ \E kinds \in VChoices(rq[r].matched.handler.request), tk \in ThrownKinds :
        LET q == rq[r]
            raw == Raw(q.matched.params, q.query, q.body.parsed)
            results == [p \in {"params", "query", "body"} |->
                           ValidatorValidate(kinds[p], tk, raw[p], p)]
            res == ValidateInputs(validator, q.matched.handler.request, raw,
                                  q.body.error, results)
            q1 == [q EXCEPT !.log = @ \o [i \in 1..Len(res.calls) |->
                                            Event("validate", res.calls[i], 0)]]
        IN IF res.t = "throw"
           THEN Set(r, [q1 EXCEPT !.pc = "catch",
                                  !.thrown = res.error,
                                  !.err = [value |-> res.error, ctx |-> 0]])
           ELSE Set(r, InitialContext(r, q1, raw, res.input))

CurGuard(q) == q.matched.handler.guards[q.gi]

\* const guardResult = await guard(context) : the call
GuardCall(r) ==
    /\ rq[r].pc = "guards"
    /\ rq[r].gi <= Len(rq[r].matched.handler.guards)
    /\ Set(r, Logged([rq[r] EXCEPT !.pc = "inGuard"],
                     Event("guard", CurGuard(rq[r]), rq[r].cur)))

\* a buggy variant: the context's locals are the hook's object itself and an
\* allowing guard's locals are assigned into it
GuardAllowShared(r) ==
    /\ rq[r].pc = "inGuard"
    /\ \E p \in {Undefined} \cup {Obj(x) : x \in GuardPatches(CurGuard(rq[r]))} :
          LET g == CurGuard(rq[r])
              q0 == Logged(rq[r], Event("guardAllow", g, rq[r].cur))
              q1 == IF p # Undefined
                    THEN [AllowContext(q0, p.props) EXCEPT
                            !.patches = Append(@, [pos |-> q0.gi, by |-> g,
                                                   props |-> p.props])]
                    ELSE q0
          IN /\ rq' = [rq EXCEPT ![r] = [q1 EXCEPT !.gi = @ + 1, !.pc = "guards"]]
             /\ sharedLocals' = IF p # Undefined /\ rq[r].initialLocals = SharedRef
                                THEN Spread2(sharedLocals, p.props)
                                ELSE sharedLocals
             /\ UNCHANGED <<config, matchIn, matchOut, gateIn, gateOut,
                          groupIn, groupOut, queryIn, queryOut, limitIn, limitOut>>

\* the guard resolves to { allow: true } with or without locals
GuardAllow(r) ==
    /\ rq[r].pc = "inGuard"
    /\ \E p \in {Undefined} \cup {Obj(x) : x \in GuardPatches(CurGuard(rq[r]))} :
          LET g == CurGuard(rq[r])
              q0 == Logged(rq[r], Event("guardAllow", g, rq[r].cur))
              q1 == IF p # Undefined
                    THEN [AllowContext(q0, p.props) EXCEPT
                            !.patches = Append(@, [pos |-> q0.gi, by |-> g,
                                                   props |-> p.props])]
                    ELSE q0
          IN Set(r, [q1 EXCEPT !.gi = @ + 1, !.pc = "guards"])

\* a buggy variant: the denial is recorded but the loop goes on
GuardDenyContinues(r) ==
    /\ rq[r].pc = "inGuard"
    /\ Set(r, Logged([rq[r] EXCEPT !.pc = "guards", !.gi = @ + 1,
                            !.result = [response |-> DenyResponse(CurGuard(rq[r])),
                                        context |-> rq[r].cur]],
                     Event("guardDeny", CurGuard(rq[r]), rq[r].cur)))

\* the guard resolves to { deny: response }
GuardDeny(r) ==
    /\ rq[r].pc = "inGuard"
    /\ Set(r, Logged([rq[r] EXCEPT !.pc = "handled",
                            !.result = [response |-> DenyResponse(CurGuard(rq[r])),
                                        context |-> rq[r].cur]],
                     Event("guardDeny", CurGuard(rq[r]), rq[r].cur)))

GuardThrow(r) ==
    /\ rq[r].pc = "inGuard"
    /\ \E k \in ThrownKinds :
          Set(r, Logged([rq[r] EXCEPT !.pc = "catch",
                               !.thrown = Thrown(k, CurGuard(rq[r])),
                               !.err = AttachContext(Thrown(k, CurGuard(rq[r])), rq[r].cur)],
                        Event("guardThrow", CurGuard(rq[r]), rq[r].cur)))

\* a buggy variant: the handler is called while guards are still pending
HandlerCallSkipsGuards(r) ==
    /\ rq[r].pc = "guards"
    /\ Set(r, Logged([rq[r] EXCEPT !.pc = "inHandler"],
                     Event("handler", "", rq[r].cur)))

\* const response = await matched.handler.handler(context) : the call
HandlerCall(r) ==
    /\ rq[r].pc = "guards"
    /\ rq[r].gi > Len(rq[r].matched.handler.guards)
    /\ Set(r, Logged([rq[r] EXCEPT !.pc = "inHandler"],
                     Event("handler", "", rq[r].cur)))

HandlerReturn(r) ==
    /\ rq[r].pc = "inHandler"
    /\ \E resp \in HandlerResponses :
          Set(r, [rq[r] EXCEPT !.pc = "handled",
                               !.result = [response |-> resp, context |-> rq[r].cur]])

HandlerThrow(r) ==
    /\ rq[r].pc = "inHandler"
    /\ \E k \in ThrownKinds :
          Set(r, [rq[r] EXCEPT !.pc = "catch",
                               !.thrown = Thrown(k, "handler"),
                               !.err = AttachContext(Thrown(k, "handler"), rq[r].cur)])

\* a buggy variant: the router's 404 bypasses the response hook
AfterHandleSkipsNotFound(r) ==
    /\ rq[r].pc = "handled"
    /\ IF onResponse /\ rq[r].matched # NoMatch
       THEN Set(r, Logged([rq[r] EXCEPT !.pc = "onResponse"],
                          Event("onResponse", rq[r].result.response.maker,
                                rq[r].result.context)))
       ELSE Set(r, [rq[r] EXCEPT !.pc = "done", !.final = rq[r].result.response])

\* a buggy variant: a guard's denial bypasses the response hook
AfterHandleSkipsDenials(r) ==
    /\ rq[r].pc = "handled"
    /\ IF onResponse /\ rq[r].result.response.status # 403
       THEN Set(r, Logged([rq[r] EXCEPT !.pc = "onResponse"],
                          Event("onResponse", rq[r].result.response.maker,
                                rq[r].result.context)))
       ELSE Set(r, [rq[r] EXCEPT !.pc = "done", !.final = rq[r].result.response])

\* back in fetch: if (onResponse && response.context) ... return response.response
AfterHandle(r) ==
    /\ rq[r].pc = "handled"
    /\ IF onResponse
       THEN Set(r, Logged([rq[r] EXCEPT !.pc = "onResponse"],
                          Event("onResponse", rq[r].result.response.maker,
                                rq[r].result.context)))
       ELSE Set(r, [rq[r] EXCEPT !.pc = "done", !.final = rq[r].result.response])

\* the hook resolves with the response it was given or with one of its own;
\* return updatedResponse
OnResponseReturn(r) ==
    /\ rq[r].pc = "onResponse"
    /\ \E resp \in {rq[r].result.response, WrappedResponse} :
          Set(r, Logged([rq[r] EXCEPT !.pc = "done", !.final = resp],
                        Event("onResponseReturn", resp.maker, rq[r].result.context)))

OnResponseThrow(r) ==
    /\ rq[r].pc = "onResponse"
    /\ \E k \in ThrownKinds :
          Set(r, [rq[r] EXCEPT !.pc = "catch",
                               !.thrown = Thrown(k, "onResponse"),
                               !.err = [value |-> Thrown(k, "onResponse"), ctx |-> 0]])

\* a buggy variant: without an attached context the boundary is given the
\* dispatcher's latest context when there is one
CatchKeepsLastContext(r) ==
    /\ rq[r].pc = "catch"
    /\ LET q == rq[r]
       IN IF q.err.value.kind = "nullish"
          THEN Set(r, [q EXCEPT !.pc = "rejected"])
          ELSE IF q.err.ctx # 0 \/ q.cur # 0
          THEN Set(r, Logged([q EXCEPT !.pc = "onError"],
                             Event("onError", q.err.value.by,
                                   IF q.err.ctx # 0 THEN q.err.ctx ELSE q.cur)))
          ELSE Set(r, Logged([q EXCEPT !.pc = "onError",
                                       !.ctxs = Append(@, MinimalContext(r))],
                             Event("onError", q.err.value.by, Len(q.ctxs) + 1)))

\* fetch's catch: error.context || minimal context, then onError is called.
\* Reading .context of null or undefined throws inside the catch block, so
\* the promise fetch returned rejects.
Catch(r) ==
    /\ rq[r].pc = "catch"
    /\ LET q == rq[r]
       IN IF q.err.value.kind = "nullish"
          THEN Set(r, [q EXCEPT !.pc = "rejected"])
          ELSE IF q.err.ctx # 0
          THEN Set(r, Logged([q EXCEPT !.pc = "onError"],
                             Event("onError", q.err.value.by, q.err.ctx)))
          ELSE Set(r, Logged([q EXCEPT !.pc = "onError",
                                       !.ctxs = Append(@, MinimalContext(r))],
                             Event("onError", q.err.value.by, Len(q.ctxs) + 1)))

\* a buggy variant: the error boundary's response is treated like a
\* dispatch result and goes on to the response hook
OnErrorReturnThroughResponseHook(r) ==
    /\ rq[r].pc = "onError"
    /\ Set(r, [rq[r] EXCEPT !.pc = "handled",
                            !.result = [response |-> IF onError = "default"
                                                     THEN DefaultErrorResponse
                                                     ELSE CustomErrorResponse,
                                        context |-> Len(rq[r].ctxs)]])

OnErrorReturn(r) ==
    /\ rq[r].pc = "onError"
    /\ Set(r, [rq[r] EXCEPT !.pc = "done",
                            !.final = IF onError = "default"
                                      THEN DefaultErrorResponse
                                      ELSE CustomErrorResponse])

OnErrorThrow(r) ==
    /\ rq[r].pc = "onError"
    /\ onError = "custom"
    /\ Set(r, [rq[r] EXCEPT !.pc = "rejected"])

Step(r) ==
    \/ Receive(r)
    \/ FetchStart(r)
    \/ OnRequestReturn(r)
    \/ OnRequestThrow(r)
    \/ Handle(r)
    \/ BodyRead(r)
    \/ Validate(r)
    \/ GuardCall(r)
    \/ GuardAllow(r)
    \/ GuardDeny(r)
    \/ GuardThrow(r)
    \/ HandlerCall(r)
    \/ HandlerReturn(r)
    \/ HandlerThrow(r)
    \/ AfterHandle(r)
    \/ OnResponseReturn(r)
    \/ OnResponseThrow(r)
    \/ Catch(r)
    \/ OnErrorReturn(r)
    \/ OnErrorThrow(r)

\* one request at a time
Next == \E r \in {1} : Step(r)

Spec == Init /\ [][Next]_vars

\* every callback that is awaited completes: a step that is possible is
\* eventually taken (the event loop runs every settled promise's continuation)
SpecLive == Spec /\ WF_vars(Next)

----------------------------------------------------------------------------
(* Several requests in flight: every await of fetch and handle is a point  *)
(* at which another request's continuation may run.  The application is    *)
(* fully configured and the environment's choices are narrowed to two      *)
(* requests, thrown Errors and a hook that returns nothing or its one      *)
(* shared object.                                                          *)

ConcRequests ==
    { [method |-> "POST", url |-> [path |-> <<"items", "1">>, query |-> q],
       body |-> Stream(ValidJson)] : q \in Queries }
    \cup { [method |-> "GET", url |-> [path |-> <<"users", "1">>, query |-> q],
            body |-> NoBody] : q \in Queries }

\* the narrowed choices, as a condition on the request's record after a step
ConcChoice(q) ==
    /\ q.request # Undefined => q.request \in ConcRequests
    /\ q.thrown # Undefined => q.thrown.kind = "error"
    /\ q.initialLocals \in {Undefined, SharedRef}
    /\ q.body.error = Undefined
    /\ q.input # Undefined => q.input.ok
    /\ q.final # Undefined => q.final # WrappedResponse

InitConc ==
    /\ handlers = AppHandlers
    /\ validator = TRUE
    /\ onRequest = TRUE
    /\ onResponse = TRUE
    /\ onError = "custom"
    /\ sharedLocals = HookPatch
    /\ rq = [r \in ReqIds |-> IdleRequest]
    /\ matchIn = Undefined
    /\ matchOut = Undefined
    /\ gateIn = Undefined
    /\ gateOut = Undefined
    /\ groupIn = Undefined
    /\ groupOut = Undefined
    /\ queryIn = Undefined
    /\ queryOut = Undefined
    /\ limitIn = Undefined
    /\ limitOut = Undefined

NextConc ==
    \E r \in ReqIds :
        \/ Receive(r) /\ ConcChoice(rq'[r])
        \/ FetchStart(r) /\ ConcChoice(rq'[r])
        \/ OnRequestReturn(r) /\ ConcChoice(rq'[r])
        \/ OnRequestThrow(r) /\ ConcChoice(rq'[r])
        \/ Handle(r) /\ ConcChoice(rq'[r])
        \/ BodyRead(r) /\ ConcChoice(rq'[r])
        \/ Validate(r) /\ ConcChoice(rq'[r])
        \/ GuardCall(r) /\ ConcChoice(rq'[r])
        \/ GuardAllow(r) /\ ConcChoice(rq'[r])
        \/ GuardDeny(r) /\ ConcChoice(rq'[r])
        \/ GuardThrow(r) /\ ConcChoice(rq'[r])
        \/ HandlerCall(r) /\ ConcChoice(rq'[r])
        \/ HandlerReturn(r) /\ ConcChoice(rq'[r])
        \/ HandlerThrow(r) /\ ConcChoice(rq'[r])
        \/ AfterHandle(r) /\ ConcChoice(rq'[r])
        \/ OnResponseReturn(r) /\ ConcChoice(rq'[r])
        \/ OnResponseThrow(r) /\ ConcChoice(rq'[r])
        \/ Catch(r) /\ ConcChoice(rq'[r])
        \/ OnErrorReturn(r) /\ ConcChoice(rq'[r])
        \/ OnErrorThrow(r) /\ ConcChoice(rq'[r])

SpecConc == InitConc /\ [][NextConc]_vars

----------------------------------------------------------------------------
(* Direct calls of router.match on route tables drawn from a small universe *)

MatchMethods == {"GET", "POST", "*"}
MatchTemplates == { <<Lit("users"), Par("id")>>, <<Lit("users"), Lit("me")>>,
                    <<Par("a"), Par("b")>> }
MatchRoutes == {Route(m, t, <<>>, NoSchemas) : m \in MatchMethods, t \in MatchTemplates}
MatchTables == UNION {[1..k -> MatchRoutes] : k \in 0..MaxRoutes}
MatchUrls == {[path |-> p, query |-> q] :
                 p \in { <<"users", "me">>, <<"users", "1">>, <<"users">>, <<"items", "1">> },
                 q \in Queries}

InitMatch ==
    /\ handlers \in MatchTables
    /\ validator = FALSE
    /\ onRequest = FALSE
    /\ onResponse = FALSE
    /\ onError = "default"
    /\ sharedLocals = HookPatch
    /\ rq = [r \in ReqIds |-> IdleRequest]
    /\ matchIn = Undefined
    /\ matchOut = Undefined
    /\ gateIn = Undefined
    /\ gateOut = Undefined
    /\ groupIn = Undefined
    /\ groupOut = Undefined
    /\ queryIn = Undefined
    /\ queryOut = Undefined
    /\ limitIn = Undefined
    /\ limitOut = Undefined

\* router.match(method, url)
MatchCall ==
    /\ matchIn = Undefined
    /\ \E m \in {"GET", "POST", "DELETE"}, u \in MatchUrls :
          /\ matchIn' = [method |-> m, url |-> u]
          /\ matchOut' = Match(handlers, m, u)
    /\ UNCHANGED <<config, sharedLocals, rq, gateIn, gateOut,
                 groupIn, groupOut, queryIn, queryOut, limitIn, limitOut>>

NextMatch == MatchCall

SpecMatch == InitMatch /\ [][NextMatch]_vars

----------------------------------------------------------------------------
(* Direct calls of the extraction and validation steps of handle: parseBody *)
(* when a body schema is declared, then validateInputs, on inputs drawn     *)
(* from a small universe and with every behaviour of the adapter            *)

GateSchemas == {NoSchemas} \cup {Schemas(p, q, b) : p \in BOOLEAN, q \in BOOLEAN, b \in BOOLEAN}
GateBodies == {NoBody} \cup {Stream(x) : x \in BodyTexts \cup {"null"}}
GateParams == [k \in {"id"} |-> "1"]
GateKinds == [{"params", "query", "body"} -> VKinds]

InitValidate ==
    /\ handlers = <<>>
    /\ validator \in BOOLEAN
    /\ onRequest = FALSE
    /\ onResponse = FALSE
    /\ onError = "default"
    /\ sharedLocals = HookPatch
    /\ rq = [r \in ReqIds |-> IdleRequest]
    /\ matchIn = Undefined
    /\ matchOut = Undefined
    /\ gateIn = Undefined
    /\ gateOut = Undefined
    /\ groupIn = Undefined
    /\ groupOut = Undefined
    /\ queryIn = Undefined
    /\ queryOut = Undefined
    /\ limitIn = Undefined
    /\ limitOut = Undefined

\* handle from parseBody to the return of validateInputs, for a matched
\* route with the given request declaration
GateCall ==
    /\ gateIn = Undefined
    /\ \E schemas \in GateSchemas, body \in GateBodies, readOk \in BOOLEAN,
          kinds \in GateKinds, tk \in ThrownKinds, qs \in Queries :
          /\ body = NoBody => readOk
          /\ (\A p \in DOMAIN kinds : kinds[p] # "throw") => tk = "error"
          /\ LET bodyRes == IF HasBodySchema([request |-> schemas])
                            THEN ParseBody(body, readOk)
                            ELSE BodyResult(Undefined, Undefined)
                 raw == Raw(GateParams, ParseQuery([query |-> qs]), bodyRes.parsed)
                 results == [p \in {"params", "query", "body"} |->
                                ValidatorValidate(kinds[p], tk, raw[p], p)]
             IN /\ gateIn' = [schemas |-> schemas, body |-> body, readOk |-> readOk,
                              kinds |-> kinds, raw |-> raw,
                              bodyParseError |-> bodyRes.error, results |-> results]
                /\ gateOut' = ValidateInputs(validator, schemas, raw, bodyRes.error, results)
    /\ UNCHANGED <<config, sharedLocals, rq, matchIn, matchOut,
                 groupIn, groupOut, queryIn, queryOut, limitIn, limitOut>>

NextValidate == GateCall

SpecValidate == InitValidate /\ [][NextValidate]_vars

----------------------------------------------------------------------------
(* Direct calls of group on handler expressions drawn from a small universe *)

\* a handler descriptor as route.* returns it; guards may be absent
Handler(id, guards) == [t |-> "handler", id |-> id, guards |-> guards]
\* an array literal of handlers and arrays
Arr(items) == [t |-> "array", items |-> items]
\* a call group({ handlers: items, guards }) written in place of an array
GroupExpr(items, guards) == [t |-> "group", items |-> items, guards |-> guards]

\* guards || [] : an absent guards property is Undefined, a present one a list
OrNoGuards(guards) == IF guards = Undefined THEN <<>> ELSE guards.l

\* [...a, ...b] : an array created by the call, not one it was given
NewList(l) == [t |-> "list", l |-> l, fresh |-> TRUE]
\* { ...handler, guards } : a descriptor created by the call, with the
\* properties of handler and the given guards
NewHandler(handler, guards) ==
    [t |-> "handler", id |-> handler.id, guards |-> guards, copy |-> TRUE]

\* a buggy variant: nested handlers are put in front of the result
RECURSIVE groupLoopUnshift(_, _)
groupLoopUnshift(items, i) ==
    IF i > Len(items) THEN <<>>
    ELSE IF items[i].t = "array"
         THEN groupLoopUnshift(items, i + 1) \o groupLoopUnshift(items[i].items, 1)
         ELSE <<items[i]>> \o groupLoopUnshift(items, i + 1)

RECURSIVE group(_, _), groupLoop(_, _)

\* a buggy variant: the group's guards are put after the handler's own
groupGuardsLast(items, guards) ==
    LET result == groupLoop(items, 1)
    IN IF guards # Undefined /\ Len(guards.l) > 0
       THEN [k \in 1..Len(result) |->
               NewHandler(result[k],
                          NewList(OrNoGuards(result[k].guards) \o OrNoGuards(guards)))]
       ELSE result

\* a buggy variant: the guards are put into the handlers it was given
\* (handler.guards.unshift(...guards), or handler.guards = [...guards])
groupInPlace(items, guards) ==
    LET result == groupLoop(items, 1)
    IN IF guards # Undefined /\ Len(guards.l) > 0
       THEN [k \in 1..Len(result) |->
               [result[k] EXCEPT !.guards =
                   IF @ = Undefined THEN NewList(guards.l)
                   ELSE [@ EXCEPT !.l = guards.l \o @]]]
       ELSE result

\* for (const item of handlers): an array is flattened by group({ handlers:
\* item }), a single handler is pushed
groupLoop(items, i) ==
    IF i > Len(items) THEN <<>>
    ELSE (IF items[i].t = "array"
          THEN group(items[i].items, Undefined)
          ELSE <<items[i]>>) \o groupLoop(items, i + 1)

\* group({ handlers, guards })
group(items, guards) ==
    LET result == groupLoop(items, 1)
    IN IF guards # Undefined /\ Len(guards.l) > 0
       THEN [k \in 1..Len(result) |->
               NewHandler(result[k],
                          NewList(OrNoGuards(guards) \o OrNoGuards(result[k].guards)))]
       ELSE result

\* JavaScript evaluates the arguments first: an inner group(...) call is an
\* array by the time the outer call runs
RECURSIVE EvalItem(_)
EvalItem(e) ==
    IF e.t = "handler" THEN e
    ELSE IF e.t = "array" THEN Arr([k \in 1..Len(e.items) |-> EvalItem(e.items[k])])
    ELSE Arr(group([k \in 1..Len(e.items) |-> EvalItem(e.items[k])], e.guards))

\* longest handlers array of the expressions
MaxWidth == 2

GroupLeaves == { Handler("a", Undefined), Handler("b", List(<<"own">>)) }
GroupGuardLists == { Undefined, List(<<>>), List(<<"p">>), List(<<"q", "s">>) }
SeqsUpTo(S, lo) == UNION {[1..n -> S] : n \in lo..MaxWidth}

\* expressions of nesting depth one and two
GroupItems1 ==
    GroupLeaves
    \cup {Arr(x) : x \in SeqsUpTo(GroupLeaves, 0)}
    \cup {GroupExpr(x, g) : x \in SeqsUpTo(GroupLeaves, 1), g \in GroupGuardLists \ {List(<<>>)}}
GroupItems2 ==
    GroupItems1
    \cup {Arr(<<x>>) : x \in GroupItems1}
    \cup {Arr(<<x, y>>) : x \in GroupLeaves, y \in GroupItems1}
    \cup {GroupExpr(<<x>>, g) : x \in GroupItems1, g \in {Undefined, List(<<"p">>)}}
    \cup {GroupExpr(<<x, y>>, g) : x \in GroupItems1, y \in GroupLeaves, g \in {List(<<"p">>)}}
\* the outermost calls
GroupCalls ==
    {GroupExpr(<<x>>, g) : x \in GroupItems2, g \in GroupGuardLists}
    \cup {GroupExpr(<<x, y>>, g) : x \in GroupLeaves, y \in GroupItems2,
                                   g \in {Undefined, List(<<"q", "s">>)}}

InitGroup ==
    /\ handlers = <<>>
    /\ validator = FALSE
    /\ onRequest = FALSE
    /\ onResponse = FALSE
    /\ onError = "default"
    /\ sharedLocals = HookPatch
    /\ rq = [r \in ReqIds |-> IdleRequest]
    /\ matchIn = Undefined
    /\ matchOut = Undefined
    /\ gateIn = Undefined
    /\ gateOut = Undefined
    /\ groupIn \in GroupCalls
    /\ groupOut = Undefined
    /\ queryIn = Undefined
    /\ queryOut = Undefined
    /\ limitIn = Undefined
    /\ limitOut = Undefined

\* the outermost group(...) call, its arguments evaluated first
GroupCall ==
    /\ groupOut = Undefined
    /\ groupOut' = Arr(group([k \in 1..Len(groupIn.items) |-> EvalItem(groupIn.items[k])],
                            groupIn.guards))
    /\ UNCHANGED <<config, sharedLocals, rq, matchIn, matchOut, gateIn, gateOut,
                   groupIn, queryIn, queryOut, limitIn, limitOut>>

NextGroup == GroupCall

SpecGroup == InitGroup /\ [][NextGroup]_vars

----------------------------------------------------------------------------
(* Direct calls of parseQuery on query strings drawn from a small universe *)

\* longest query string, in key=value pairs
MaxPairs == 3

QueryKeys == {"tag", "limit", "toString"}
QueryValues == {"a", "b"}
QueryStrings == UNION {[1..n -> {Pair(k, v) : k \in QueryKeys, v \in QueryValues}] :
                          n \in 0..MaxPairs}

InitQuery ==
    /\ handlers = <<>>
    /\ validator = FALSE
    /\ onRequest = FALSE
    /\ onResponse = FALSE
    /\ onError = "default"
    /\ sharedLocals = HookPatch
    /\ rq = [r \in ReqIds |-> IdleRequest]
    /\ matchIn = Undefined
    /\ matchOut = Undefined
    /\ gateIn = Undefined
    /\ gateOut = Undefined
    /\ groupIn = Undefined
    /\ groupOut = Undefined
    /\ queryIn \in {[path |-> <<"search">>, query |-> qs] : qs \in QueryStrings}
    /\ queryOut = Undefined
    /\ limitIn = Undefined
    /\ limitOut = Undefined

\* parseQuery(request.url)
QueryCall ==
    /\ queryOut = Undefined
    /\ queryOut' = Obj(ParseQuery(queryIn))
    /\ UNCHANGED <<config, sharedLocals, rq, matchIn, matchOut, gateIn, gateOut,
                   groupIn, groupOut, queryIn, limitIn, limitOut>>

NextQuery == QueryCall

SpecQuery == InitQuery /\ [][NextQuery]_vars

----------------------------------------------------------------------------
(* The helpers' guard maxBodyBytes(n) in front of a handler *)

\* largest limit of the model, in bytes; bodies are up to one byte longer
MaxBytes == 3

\* c.request.headers.get("content-length"): null when the header is absent
\* (a streamed body), decimal digits, or other text
NoHeader == [t |-> "null"]
Digits(n) == [t |-> "digits", n |-> n]
OtherText == [t |-> "text"]

\* parseInt(contentLength, 10)
NaN == [t |-> "NaN"]
ParseInt(text) == IF text.t = "digits" THEN [t |-> "number", n |-> text.n] ELSE NaN

Allow == [t |-> "allow"]
Deny(status) == [t |-> "deny", status |-> status]

\* the guard maxBodyBytes(maxBytes) returns, applied to a request with the
\* given Content-Length header
maxBodyBytes(maxBytes, contentLength) ==
    IF contentLength = NoHeader THEN Allow
    ELSE IF ParseInt(contentLength) = NaN THEN Deny(400)
    ELSE IF ParseInt(contentLength).n > maxBytes THEN Deny(413)
    ELSE Allow

\* the requests: a Content-Length header, when it is a number, is the
\* body's length; a streamed body has none
LimitInputs ==
    {[maxBytes |-> n, bodyBytes |-> b, contentLength |-> h] :
        n \in 0..MaxBytes, b \in 0..(MaxBytes + 1),
        h \in {NoHeader, OtherText} \cup {Digits(k) : k \in 0..(MaxBytes + 1)}}
    \ {x \in [maxBytes : 0..MaxBytes, bodyBytes : 0..(MaxBytes + 1),
              contentLength : {Digits(k) : k \in 0..(MaxBytes + 1)}] :
          x.contentLength.n # x.bodyBytes}

InitLimit ==
    /\ handlers = <<>>
    /\ validator = FALSE
    /\ onRequest = FALSE
    /\ onResponse = FALSE
    /\ onError = "default"
    /\ sharedLocals = HookPatch
    /\ rq = [r \in ReqIds |-> IdleRequest]
    /\ matchIn = Undefined
    /\ matchOut = Undefined
    /\ gateIn = Undefined
    /\ gateOut = Undefined
    /\ groupIn = Undefined
    /\ groupOut = Undefined
    /\ queryIn = Undefined
    /\ queryOut = Undefined
    /\ limitIn \in LimitInputs
    /\ limitOut = Undefined

\* the guard loop calls the route's one guard
LimitGuardCall ==
    /\ limitOut = Undefined
    /\ limitOut' = [guard |-> maxBodyBytes(limitIn.maxBytes, limitIn.contentLength),
                    handler |-> FALSE]
    /\ UNCHANGED <<config, sharedLocals, rq, matchIn, matchOut, gateIn, gateOut,
                   groupIn, groupOut, queryIn, queryOut, limitIn>>

\* the guard allowed: the loop ends and the handler is called
LimitHandlerCall ==
    /\ limitOut # Undefined
    /\ limitOut.guard = Allow
    /\ ~limitOut.handler
    /\ limitOut' = [limitOut EXCEPT !.handler = TRUE]
    /\ UNCHANGED <<config, sharedLocals, rq, matchIn, matchOut, gateIn, gateOut,
                   groupIn, groupOut, queryIn, queryOut, limitIn>>

NextLimit == LimitGuardCall \/ LimitHandlerCall

SpecLimit == InitLimit /\ [][NextLimit]_vars

----------------------------------------------------------------------------
(* Properties *)

\* a route is satisfied by a request: its method is the request's or the
\* wildcard, and its template fits the path segment by segment
Satisfies(h, method, url) ==
    /\ h.method \in {method, "*"}
    /\ Len(h.path) = Len(url.path)
    /\ \A i \in 1..Len(h.path) : h.path[i].kind = "param" \/ h.path[i].name = url.path[i]

\* params holds exactly the template's named segments with the path's values
NamedSegments(h, url, params) ==
    /\ DOMAIN params = {h.path[i].name : i \in {j \in 1..Len(h.path) : h.path[j].kind = "param"}}
    /\ \A i \in 1..Len(h.path) :
          h.path[i].kind = "param" => params[h.path[i].name] = url.path[i]

SatisfiedRoutes(method, url) ==
    {i \in 1..Len(handlers) : Satisfies(handlers[i], method, url)}

\* C1: match returns the first route in registration order whose method is
\* the request's or "*" and whose template matches the path, with that
\* route's named parameters, and returns no match iff no route satisfies both.
C1_FirstMatchWins ==
    matchOut # Undefined =>
        LET S == SatisfiedRoutes(matchIn.method, matchIn.url)
        IN IF S = {}
           THEN matchOut = NoMatch
           ELSE LET first == CHOOSE i \in S : \A j \in S : i <= j
                IN /\ matchOut.t = "match"
                   /\ matchOut.index = first
                   /\ matchOut.handler = handlers[first]
                   /\ NamedSegments(handlers[first], matchIn.url, matchOut.params)

\* a wildcard route registered after a route of another method on the same
\* path serves the request
C1_Witness ==
    /\ matchOut # Undefined
    /\ matchOut.t = "match"
    /\ matchOut.handler.method = "*"
    /\ matchOut.index > 1
    /\ handlers[1].method \notin {"*", matchIn.method}
    /\ handlers[1].path = matchOut.handler.path

\* C2 as stated: every route the request satisfies is the one match returns
C2_EverySatisfiedRouteReturned ==
    matchOut # Undefined =>
        \A i \in SatisfiedRoutes(matchIn.method, matchIn.url) :
            /\ matchOut.t = "match"
            /\ matchOut.handler = handlers[i]
            /\ NamedSegments(handlers[i], matchIn.url, matchOut.params)

\* C2 (amended): a route R that the request satisfies, while no route
\* registered before R is satisfied, is the one match returns, with
\* parameters equal to the values of R's named segments.
C2_UnshadowedRouteReturned ==
    matchOut # Undefined =>
        \A i \in SatisfiedRoutes(matchIn.method, matchIn.url) :
            (\A j \in 1..(i - 1) : ~Satisfies(handlers[j], matchIn.method, matchIn.url))
            => /\ matchOut.t = "match"
               /\ matchOut.index = i
               /\ matchOut.handler = handlers[i]
               /\ NamedSegments(handlers[i], matchIn.url, matchOut.params)

\* the second route is returned, with two parameters, past a first route
\* the request does not satisfy
C2_Witness ==
    /\ matchOut # Undefined
    /\ matchOut.t = "match"
    /\ matchOut.index = 2
    /\ DOMAIN matchOut.params = {"a", "b"}
    /\ matchOut.params["b"] = "1"

----------------------------------------------------------------------------
(* Properties of a request, read from its history *)

\* the positions of the log that hold one of the events evs
Idx(q, evs) == {i \in 1..Len(q.log) : q.log[i].ev \in evs}

\* the guard calls of the request, in the order they happened
GuardCalls(q) == SelectSeq(q.log, LAMBDA e : e.ev = "guard")

\* the patch the pre-routing hook contributed
HookPatchOf(q) ==
    IF q.initialLocals.t = "object" THEN q.initialLocals.props
    ELSE IF q.initialLocals.t = "shared" THEN HookPatch
    ELSE EmptyObj

\* the patches of the allowing guards at guard positions below k, in order
PatchesBefore(q, k) ==
    LET ps == SelectSeq(q.patches, LAMBDA p : p.pos < k)
    IN [i \in 1..Len(ps) |-> ps[i].props]

\* the merge of a sequence of patches: each key has the value of the last
\* patch that sets it
LastWins(cs) ==
    [k \in UNION {DOMAIN cs[i] : i \in 1..Len(cs)} |->
        LET setters == {i \in 1..Len(cs) : k \in DOMAIN cs[i]}
            last == CHOOSE i \in setters : \A j \in setters : j <= i
        IN cs[last][k]]

\* C3: when no registered route matches the request's method and path, the
\* dispatch answers with status 404 and body "Not Found", and no body read,
\* validator call, guard or handler happens for the request.
C3_NotFound ==
    \A r \in ReqIds :
        LET q == rq[r]
        IN (Idx(q, {"match"}) # {}
            /\ SatisfiedRoutes(q.request.method, q.request.url) = {})
           => /\ q.result # Undefined
              /\ q.result.response.status = 404
              /\ q.result.response.body = "Not Found"
              /\ q.reads = 0
              /\ Idx(q, {"readBody", "validate", "guard", "handler"}) = {}
              /\ (q.pc = "done" /\ ~onResponse) =>
                    (q.final.status = 404 /\ q.final.body = "Not Found")

\* GET /users is answered 404 although /users is registered under POST
C3_Witness ==
    \E r \in ReqIds :
        /\ rq[r].pc = "done"
        /\ rq[r].request.method = "GET"
        /\ rq[r].request.url.path = <<"users">>
        /\ \E i \in 1..Len(handlers) :
              handlers[i].method = "POST" /\ handlers[i].path = <<Lit("users")>>
        /\ rq[r].final.status = 404
        /\ rq[r].final.body = "Not Found"

\* C4: the guards of the matched route are invoked in their order, a guard
\* only after the one before it has resolved with allow; after the first deny
\* no guard and not the handler is invoked, and the dispatch's response is
\* that deny's response.
C4_GuardChain ==
    \A r \in ReqIds :
        LET q == rq[r]
            calls == GuardCalls(q)
        IN /\ \A k \in 1..Len(calls) :
                 /\ k <= Len(q.matched.handler.guards)
                 /\ calls[k].arg = q.matched.handler.guards[k]
           /\ \A i \in Idx(q, {"guard"}) : \A j \in Idx(q, {"guard", "handler"}) :
                 i < j => \E k \in Idx(q, {"guardAllow"}) :
                             i < k /\ k < j /\ q.log[k].arg = q.log[i].arg
           /\ \A i \in Idx(q, {"guardDeny"}) :
                 /\ \A j \in Idx(q, {"guard", "handler", "guardAllow", "guardDeny"}) : j <= i
                 /\ q.log[i - 1].ev = "guard" /\ q.log[i - 1].arg = q.log[i].arg
                 /\ q.result.response.maker = q.log[i].arg
                 /\ q.result.response.status = 403

\* the second of three guards denied: the third and the handler never ran
C4_Witness ==
    \E r \in ReqIds :
        LET q == rq[r]
        IN /\ q.pc = "done"
           /\ q.matched # NoMatch
           /\ q.matched.handler.guards = <<"g1", "g2", "g3">>
           /\ Len(GuardCalls(q)) = 2
           /\ Idx(q, {"handler"}) = {}
           /\ q.final.maker = "g2"

\* C5: the locals the handler observes are the pre-routing hook's patch
\* merged with the patches of the allowing guards in order, a later patch
\* winning on equal keys, and the key set never shrinks along the chain.
C5_HandlerLocals ==
    \A r \in ReqIds :
        LET q == rq[r]
        IN /\ \A i \in Idx(q, {"handler"}) :
                 q.ctxs[q.log[i].ctx].locals =
                    LastWins(<<HookPatchOf(q)>> \o PatchesBefore(q, Len(q.matched.handler.guards) + 1))
           /\ \A i \in Idx(q, {"guard", "handler"}) : \A j \in Idx(q, {"guard", "handler"}) :
                 i < j => DOMAIN q.ctxs[q.log[i].ctx].locals
                             \subseteq DOMAIN q.ctxs[q.log[j].ctx].locals

\* the handler sees g2's value for the key the hook and g1 also set, and the
\* keys only the hook and only g1 set
C5_Witness ==
    \E r \in ReqIds :
        LET q == rq[r]
        IN /\ Idx(q, {"handler"}) # {}
           /\ Len(q.patches) >= 2
           /\ q.patches[1].by = "g1" /\ q.patches[2].by = "g2"
           /\ LET l == q.ctxs[q.cur].locals
              IN /\ {"hook", "g1", "g2", "user"} \subseteq DOMAIN l
                 /\ l["user"] = "g2" /\ l["g1"] = "g1" /\ l["hook"] = "hook"

\* C6: the k-th guard is invoked with a context whose locals are exactly the
\* merge of the hook's patch and the patches of the guards before it, and that
\* context stays as it was when later guards contribute locals.
C6_GuardSeesEarlierOnly ==
    \A r \in ReqIds :
        LET q == rq[r]
            calls == GuardCalls(q)
        IN \A k \in 1..Len(calls) :
              q.ctxs[calls[k].ctx].locals =
                 LastWins(<<HookPatchOf(q)>> \o PatchesBefore(q, k))

\* g1 and g2 both contributed, and the context g1 received still holds the
\* hook's patch only
C6_Witness ==
    \E r \in ReqIds :
        LET q == rq[r]
            calls == GuardCalls(q)
        IN /\ Len(calls) >= 2
           /\ Len(q.patches) >= 2
           /\ q.patches[1].pos = 1 /\ q.patches[2].pos = 2
           /\ q.ctxs[calls[1].ctx].locals = HookPatch
           /\ "g1" \in DOMAIN q.ctxs[calls[2].ctx].locals
           /\ "g2" \notin DOMAIN q.ctxs[calls[2].ctx].locals

\* the matched route declares no body schema
NoBodySchema(q) ==
    /\ q.matched # NoMatch
    /\ (q.matched.handler.request.t = "none" \/ ~q.matched.handler.request.body)

\* C7: for a matched route that declares no body schema the body is never
\* read and raw.body is undefined in every context of the request, whatever
\* body the request carries and whatever other schemas are declared.
C7_NoBodySchemaNoRead ==
    \A r \in ReqIds :
        LET q == rq[r]
        IN NoBodySchema(q)
           => /\ q.reads = 0
              /\ Idx(q, {"readBody"}) = {}
              /\ \A c \in 1..Len(q.ctxs) : q.ctxs[c].raw.body = Undefined

\* a request with a JSON body reached the handler of a route that declares
\* params and query schemas but no body schema
C7_Witness ==
    \E r \in ReqIds :
        LET q == rq[r]
        IN /\ q.pc = "done"
           /\ NoBodySchema(q)
           /\ q.matched.handler.request.t = "schemas"
           /\ q.matched.handler.request.params
           /\ q.request.body = Stream(ValidJson)
           /\ Idx(q, {"handler"}) # {}
           /\ q.ctxs[q.cur].raw.body = Undefined

\* C8: the body stream is read at most once per request on every path, and
\* only after a route has matched.
C8_BodyReadAtMostOnce ==
    \A r \in ReqIds :
        LET q == rq[r]
        IN /\ q.reads <= 1
           /\ Cardinality(Idx(q, {"readBody"})) = q.reads
           /\ q.reads > 0 =>
                 /\ SatisfiedRoutes(q.request.method, q.request.url) # {}
                 /\ \A i \in Idx(q, {"readBody"}) : \E j \in Idx(q, {"match"}) : j < i

\* a request whose body was read ended through the error boundary after a
\* guard had run
C8_Witness ==
    \E r \in ReqIds :
        LET q == rq[r]
        IN /\ q.pc = "done"
           /\ q.reads = 1
           /\ Idx(q, {"guardThrow"}) # {}
           /\ Idx(q, {"onError"}) # {}

\* C9: a validation failure does not end the request: with the failure input
\* state the guards run in order and, unless one denies, the handler is invoked
\* with input.ok = false; the framework neither throws nor answers itself.
C9_FailureReachesHandler ==
    \A r \in ReqIds :
        LET q == rq[r]
        IN (q.input # Undefined /\ ~q.input.ok)
           => /\ q.err # Undefined =>
                    /\ q.err.value.by \in Guards \cup {"handler", "onResponse", "TypeError"}
                    /\ Idx(q, {"guardThrow", "handler"}) # {} \/ q.err.value.by = "onResponse"
              /\ q.result # Undefined =>
                    /\ q.result.response.maker \in Guards \cup {"handler"}
                    /\ Idx(q, {"guardDeny"}) = {} =>
                          /\ Idx(q, {"handler"}) # {}
                          /\ q.result.response.maker = "handler"
              /\ \A i \in Idx(q, {"handler"}) :
                    /\ ~q.ctxs[q.log[i].ctx].input.ok
                    /\ [k \in 1..Len(GuardCalls(q)) |-> GuardCalls(q)[k].arg]
                          = q.matched.handler.guards

\* a body that is not valid JSON: the three guards ran and the handler
\* answered, with input.ok = false
C9_Witness ==
    \E r \in ReqIds :
        LET q == rq[r]
        IN /\ q.pc = "done"
           /\ q.request.body = Stream("not json{")
           /\ q.input # Undefined /\ ~q.input.ok
           /\ q.input.issues = <<Issue("body", "Invalid JSON")>>
           /\ Len(GuardCalls(q)) = 3
           /\ Idx(q, {"handler"}) # {}
           /\ q.final.maker = "handler"

\* the matched route declares a schema and no validator adapter is configured
SchemaWithoutValidator(q) ==
    /\ q.matched # NoMatch
    /\ q.matched.handler.request.t = "schemas"
    /\ \E p \in {"params", "query", "body"} : q.matched.handler.request[p]
    /\ ~validator

\* C10: when the matched route declares a schema and no validator adapter is
\* configured, the request ends through the error boundary (status 500 with
\* the default hook), never with an input state; no guard and no handler runs.
C10_MissingValidator ==
    \A r \in ReqIds :
        LET q == rq[r]
        IN SchemaWithoutValidator(q)
           => /\ q.input = Undefined
              /\ q.result = Undefined
              /\ Idx(q, {"validate", "guard", "handler", "onResponse"}) = {}
              /\ q.pc \in {"onError", "done", "rejected"} =>
                    /\ Cardinality(Idx(q, {"onError"})) = 1
                    /\ \A i \in Idx(q, {"onError"}) : q.log[i].arg = "validateInputs"
              /\ q.pc = "done" =>
                    /\ q.final.maker \in {"defaultOnError", "onError"}
                    /\ onError = "default" => q.final.status = 500
              /\ q.pc = "rejected" => onError = "custom"

\* POST /users declares a body schema; without a validator the default
\* error boundary answered 500
C10_Witness ==
    \E r \in ReqIds :
        LET q == rq[r]
        IN /\ q.pc = "done"
           /\ SchemaWithoutValidator(q)
           /\ q.matched.handler.request.body
           /\ q.reads = 1
           /\ onError = "default"
           /\ q.final.status = 500
           /\ q.final.maker = "defaultOnError"

----------------------------------------------------------------------------
(* Properties of the validation gate, read from a direct call *)

\* the declaration names no schema for any part (absent, or an empty object)
NoSchemaDeclared(schemas) ==
    schemas.t = "none" \/ (~schemas.params /\ ~schemas.query /\ ~schemas.body)

\* the part has a schema in the call
Declared(in, p) == in.schemas.t = "schemas" /\ in.schemas[p]

\* C11: for a route that declares no schema for params, query or body the
\* gate always succeeds, the validated values are the raw ones, and the
\* adapter is not invoked, whether or not an adapter is configured.
C11_NoSchemaAlwaysSucceeds ==
    (gateOut # Undefined /\ NoSchemaDeclared(gateIn.schemas))
    => /\ gateOut.t = "return"
       /\ gateOut.calls = <<>>
       /\ gateOut.input = InputOk(gateIn.raw.params, gateIn.raw.query, gateIn.raw.body)

\* a route declared with request: {} and no adapter configured: the gate threw
C11_Witness ==
    /\ gateOut # Undefined
    /\ gateIn.schemas = Schemas(FALSE, FALSE, FALSE)
    /\ ~validator
    /\ gateOut.t = "throw"
    /\ gateOut.error = Thrown("error", "validateInputs")

\* the part fails in the call: its body could not be parsed, or the adapter
\* answers its schema with a failure
PartFails(in, p) ==
    /\ Declared(in, p)
    /\ IF p = "body" /\ in.bodyParseError # Undefined
       THEN TRUE
       ELSE in.results[p].t = "fail"

\* the issues the part contributes when it fails
PartIssues(in, p) ==
    IF ~PartFails(in, p) THEN <<>>
    ELSE IF p = "body" /\ in.bodyParseError # Undefined
    THEN <<Issue("body", "Invalid JSON")>>
    ELSE in.results[p].issues

\* the parts the adapter is asked about, in the order params, query, body
PartsValidated(in) ==
    SelectSeq(Parts, LAMBDA p : Declared(in, p)
                                /\ ~(p = "body" /\ in.bodyParseError # Undefined))

\* C12: the input state is the failure variant iff at least one declared part
\* fails; every declared part is validated even after an earlier failure;
\* failed lists exactly the failing parts, once each, in the order params,
\* query, body, and issues is the concatenation of their issues in that order.
C12_FailureAggregation ==
    (gateOut # Undefined /\ gateOut.t = "return" /\ gateIn.schemas.t = "schemas")
    => LET in == gateIn
           failing == SelectSeq(Parts, LAMBDA p : PartFails(in, p))
       IN /\ gateOut.input.ok = (failing = <<>>)
          /\ gateOut.calls = PartsValidated(in)
          /\ ~gateOut.input.ok =>
                /\ gateOut.input.failed = failing
                /\ gateOut.input.issues =
                      PartIssues(in, "params") \o PartIssues(in, "query") \o PartIssues(in, "body")

\* params and body fail while query passes: query was still validated, and
\* the four issues are those of params followed by those of body
C12_Witness ==
    /\ gateOut # Undefined
    /\ gateOut.t = "return"
    /\ gateIn.schemas = Schemas(TRUE, TRUE, TRUE)
    /\ gateIn.kinds = [params |-> "failErr", query |-> "ok", body |-> "failErr"]
    /\ gateIn.bodyParseError = Undefined
    /\ gateOut.calls = <<"params", "query", "body">>
    /\ ~gateOut.input.ok
    /\ gateOut.input.failed = <<"params", "body">>
    /\ Len(gateOut.input.issues) = 4
    /\ gateOut.input.issues[2].part = "params"
    /\ gateOut.input.issues[3].part = "body"

----------------------------------------------------------------------------
(* Properties of the contexts a request's callbacks receive *)

\* the contexts handed to a guard, the handler, the response hook or the
\* error-boundary hook of the request
HandedContexts(q) ==
    {q.ctxs[q.log[i].ctx] : i \in Idx(q, {"guard", "handler", "onResponse", "onError"})}

\* C13: in every context handed to a guard, the handler or a hook the input
\* state is exactly one variant: ok = true with params, query and body and
\* none of failed, issues, received; or ok = false with a non-empty failed
\* list, issues and received and none of params, query, body.
C13_ExactlyOneVariant ==
    \A r \in ReqIds : \A c \in HandedContexts(rq[r]) :
        IF c.input.ok
        THEN /\ {"params", "query", "body"} \subseteq DOMAIN c.input
             /\ DOMAIN c.input \cap {"failed", "issues", "received"} = {}
        ELSE /\ {"failed", "issues", "received"} \subseteq DOMAIN c.input
             /\ Len(c.input.failed) > 0
             /\ DOMAIN c.input \cap {"params", "query", "body"} = {}

\* the response hook received a failure state with two failed parts after
\* the handler had received the same context
C13_Witness ==
    \E r \in ReqIds :
        LET q == rq[r]
        IN /\ Idx(q, {"handler"}) # {}
           /\ Idx(q, {"onResponse"}) # {}
           /\ \A i \in Idx(q, {"onResponse"}) :
                 /\ ~q.ctxs[q.log[i].ctx].input.ok
                 /\ q.ctxs[q.log[i].ctx].input.failed = <<"params", "body">>

----------------------------------------------------------------------------
(* Properties of body extraction followed by the validation gate *)

\* the call carries a non-empty body text that JSON.parse rejects
MalformedBody(in) ==
    /\ in.body # NoBody
    /\ in.readOk
    /\ in.body.text # ""
    /\ ~JsonParse(in.body.text).ok

\* the issues of a failure state that belong to the part
IssuesOf(input, p) == SelectSeq(input.issues, LAMBDA i : i.part = p)

\* C14: with a declared body schema, a non-empty body that is not valid JSON
\* gives the failure input state in which the body contributes exactly the
\* one issue {part: body, path: [], message: "Invalid JSON"} and "body" is in
\* failed; raw.body is undefined; the adapter is not invoked for the body
\* part, while declared params and query schemas are still validated.
C14_InvalidJsonIssue ==
    (gateOut # Undefined /\ Declared(gateIn, "body") /\ MalformedBody(gateIn))
    => /\ gateIn.raw.body = Undefined
       /\ \A i \in 1..Len(gateOut.calls) : gateOut.calls[i] # "body"
       /\ gateOut.t = "throw" =>
             \/ ~validator
             \/ \E p \in {"params", "query"} :
                   Declared(gateIn, p) /\ gateIn.kinds[p] = "throw"
       /\ gateOut.t = "return" =>
             /\ ~gateOut.input.ok
             /\ \E i \in 1..Len(gateOut.input.failed) : gateOut.input.failed[i] = "body"
             /\ IssuesOf(gateOut.input, "body") =
                   << [part |-> "body", path |-> <<>>, message |-> "Invalid JSON"] >>
             /\ gateOut.input.received.body = Undefined
             /\ \A p \in {"params", "query"} :
                   Declared(gateIn, p) <=> \E i \in 1..Len(gateOut.calls) : gateOut.calls[i] = p

\* "not json{" with all three schemas declared and an adapter that accepts
\* params and query: only the body failed, with the one issue
C14_Witness ==
    /\ gateOut # Undefined
    /\ gateIn.schemas = Schemas(TRUE, TRUE, TRUE)
    /\ gateIn.body = Stream("not json{")
    /\ gateIn.readOk
    /\ gateOut.t = "return"
    /\ gateOut.calls = <<"params", "query">>
    /\ gateOut.input.failed = <<"body">>
    /\ gateOut.input.issues = <<Issue("body", "Invalid JSON")>>

\* the call carries no body at all, or a body whose text has length zero
EmptyBody(in) == in.body = NoBody \/ (in.readOk /\ in.body.text = "")

\* C15: with a declared body schema, an empty body (zero-length text or no
\* body) gives raw.body = undefined and no parse error; the body schema is
\* validated against undefined, the body part fails iff the adapter says so,
\* and no "Invalid JSON" issue appears.
C15_EmptyBodyIsUndefined ==
    (gateOut # Undefined /\ Declared(gateIn, "body") /\ EmptyBody(gateIn))
    => /\ gateIn.raw.body = Undefined
       /\ gateIn.bodyParseError = Undefined
       /\ gateOut.t = "return" =>
             /\ gateOut.calls[Len(gateOut.calls)] = "body"
             /\ gateIn.results.body.t = "ok" =>
                   /\ gateOut.input.ok => gateOut.input.body = gateIn.results.body.value
                   /\ ~gateOut.input.ok =>
                         \A i \in 1..Len(gateOut.input.failed) : gateOut.input.failed[i] # "body"
             /\ gateIn.results.body.t = "fail" =>
                   /\ ~gateOut.input.ok
                   /\ IssuesOf(gateOut.input, "body") = gateIn.results.body.issues
             /\ ~gateOut.input.ok =>
                   \A i \in 1..Len(gateOut.input.issues) :
                       gateOut.input.issues[i].message # "Invalid JSON"

\* a zero-length body text with a body schema and an adapter that accepts
\* undefined: the gate succeeded with body = undefined
C15_Witness ==
    /\ gateOut # Undefined
    /\ gateIn.schemas = Schemas(FALSE, FALSE, TRUE)
    /\ gateIn.body = Stream("")
    /\ gateIn.readOk
    /\ gateIn.kinds.body = "ok"
    /\ gateOut.t = "return"
    /\ gateOut.calls = <<"body">>
    /\ gateOut.input.ok
    /\ gateOut.input.body = Undefined

----------------------------------------------------------------------------
(* Properties of the error boundary *)

\* the request has left the catch block of fetch
PastCatch(q) == q.pc \in {"onError", "done", "rejected"}

\* the error-boundary hook was invoked and threw
OnErrorThrew(q) == q.pc = "rejected" /\ Idx(q, {"onError"}) # {}

\* C16: whatever value the pre-routing hook, the validator, a guard, the
\* handler or the response hook throws (an Error, another object, a
\* primitive, null or undefined), the error-boundary hook is invoked exactly
\* once for the request, with that same value, and the response it returns
\* is the final response.
C16_BoundaryGetsThrownValue ==
    \A r \in ReqIds :
        LET q == rq[r]
        IN (q.thrown # Undefined /\ PastCatch(q))
           => /\ Cardinality(Idx(q, {"onError"})) = 1
              /\ q.err.value = q.thrown
              /\ q.pc = "done" => q.final.maker \in {"defaultOnError", "onError"}

\* the handler threw a primitive and the error-boundary hook was given the
\* TypeError of the failed context assignment instead, with no context
C16_Witness ==
    \E r \in ReqIds :
        LET q == rq[r]
        IN /\ q.pc = "done"
           /\ q.thrown = Thrown("primitive", "handler")
           /\ q.err.value = Thrown("error", "TypeError")
           /\ \A i \in Idx(q, {"onError"}) :
                 q.log[i].arg = "TypeError" /\ q.ctxs[q.log[i].ctx] = MinimalContext(r)

\* C17: when every awaited callback completes, by returning or by throwing
\* any value, and the error-boundary hook returns normally, fetch eventually
\* resolves with a Response and never rejects.
C17_FetchResolves ==
    /\ [](\A r \in ReqIds : rq[r].pc = "rejected" => OnErrorThrew(rq[r]))
    /\ \A r \in {1} :
          (rq[r].pc = "fetch") ~> (rq[r].pc = "done" \/ OnErrorThrew(rq[r]))

\* the pre-routing hook threw null or undefined and fetch rejected without
\* the error-boundary hook having been invoked
C17_Witness ==
    \E r \in ReqIds :
        LET q == rq[r]
        IN /\ q.pc = "rejected"
           /\ q.thrown = Thrown("nullish", "onRequest")
           /\ Idx(q, {"onError"}) = {}

\* C18: if guard Gi throws, the error boundary receives the context as it
\* was entering Gi (the request, the matched params and raw values, the input
\* state, and the locals of the pre-routing hook and G1..Gi-1 only), and no
\* later guard and not the handler runs.
C18_GuardThrowContext ==
    \A r \in ReqIds :
        LET q == rq[r]
        IN \A i \in Idx(q, {"guardThrow"}) :
              /\ \A j \in Idx(q, {"guard", "handler"}) : j < i
              /\ PastCatch(q) =>
                    /\ Cardinality(Idx(q, {"onError"})) = 1
                    /\ \A j \in Idx(q, {"onError"}) :
                          LET c == q.ctxs[q.log[j].ctx]
                          IN /\ q.log[j].ctx = q.log[i].ctx
                             /\ c.request = r
                             /\ c.raw = Raw(q.matched.params, q.query, q.body.parsed)
                             /\ c.input = q.input
                             /\ c.locals = LastWins(<<HookPatchOf(q)>>
                                                    \o PatchesBefore(q, q.gi))

\* g2 threw a primitive after the hook and g1 had contributed locals: the
\* error boundary was given a context with no locals and no params
C18_Witness ==
    \E r \in ReqIds :
        LET q == rq[r]
        IN /\ q.pc = "done"
           /\ q.thrown = Thrown("primitive", "g2")
           /\ q.gi = 2
           /\ Len(q.patches) = 1
           /\ q.patches[1].by = "g1"
           /\ HookPatchOf(q) = HookPatch
           /\ DOMAIN q.matched.params = {"id"}
           /\ \A j \in Idx(q, {"onError"}) :
                 /\ q.ctxs[q.log[j].ctx].locals = EmptyObj
                 /\ q.ctxs[q.log[j].ctx].raw.params = EmptyObj

\* the value the boundary receives carries a context: a guard or the handler
\* threw an object to which handle could attach one
ContextAttached(q) ==
    q.thrown.kind = "error" /\ q.thrown.by \in Guards \cup {"handler"}

DispatchContext(q) == IF q.result # Undefined THEN q.result.context ELSE q.cur

----------------------------------------------------------------------------
(* Properties of the lifecycle hooks *)

\* the request is past the point where fetch decides about the response hook
PastDispatch(q) == q.result # Undefined /\ q.pc # "handled"

\* C21: when a response hook is configured it is invoked exactly once for
\* every request whose dispatch returns without throwing, with the context
\* that produced the response and with that response, and fetch returns
\* exactly what the hook returned; for a denial the context is the one the
\* denying guard received.
C21_ResponseHookOnce ==
    /\ [](\A r \in ReqIds :
            LET q == rq[r]
            IN (onResponse /\ PastDispatch(q))
               => /\ Cardinality(Idx(q, {"onResponse"})) = 1
                  /\ \A i \in Idx(q, {"onResponse"}) :
                        /\ q.log[i].ctx = q.result.context
                        /\ q.log[i].arg = q.result.response.maker
                        /\ \A d \in Idx(q, {"guardDeny"}) :
                              /\ q.log[d - 1].ev = "guard"
                              /\ q.log[i].ctx = q.log[d - 1].ctx
                              /\ q.result.response = DenyResponse(q.log[d].arg)
                        /\ \A h \in Idx(q, {"handler"}) :
                              Idx(q, {"guardDeny"}) = {} => q.log[i].ctx = q.log[h].ctx
                  /\ (q.pc = "done" /\ q.thrown = Undefined) =>
                        /\ Cardinality(Idx(q, {"onResponseReturn"})) = 1
                        /\ \A i \in Idx(q, {"onResponseReturn"}) :
                              /\ q.final.maker = q.log[i].arg
                              /\ q.final \in {q.result.response, WrappedResponse})
    /\ \A r \in {1} :
          (onResponse /\ rq[r].pc = "handled") ~> (Idx(rq[r], {"onResponse"}) # {})

\* g2 denied after g1 had contributed locals; the hook was given the context
\* g2 had received and the denial, and fetch returned the hook's response
C21_Witness ==
    \E r \in ReqIds :
        LET q == rq[r]
        IN /\ q.pc = "done"
           /\ q.final = WrappedResponse
           /\ q.result # Undefined
           /\ q.result.response = DenyResponse("g2")
           /\ Len(q.patches) = 1
           /\ \A i \in Idx(q, {"onResponse"}) :
                 /\ q.log[i].arg = "g2"
                 /\ "g1" \in DOMAIN q.ctxs[q.log[i].ctx].locals

\* the hook's value for key k is kept: the context holds k with the hook's
\* value unless a guard of the request set k
KeepsHookKey(q, c, k) ==
    /\ k \in DOMAIN c.locals
    /\ (\A i \in 1..Len(q.patches) : k \notin DOMAIN q.patches[i].props)
       => c.locals[k] = HookPatchOf(q)[k]

\* C22: the locals patch returned by the pre-routing hook is merged into the
\* request's context before routing: every context passed to a guard, the
\* handler or the response hook contains each key of the patch (with the
\* hook's value unless a guard overrode it), whether or not a route matched;
\* with no hook, or a hook returning nothing, the initial locals are empty.
C22_HookLocalsInEveryContext ==
    \A r \in ReqIds :
        LET q == rq[r]
        IN \A i \in Idx(q, {"guard", "handler", "onResponse"}) :
              LET c == q.ctxs[q.log[i].ctx]
              IN /\ \A k \in DOMAIN HookPatchOf(q) : KeepsHookKey(q, c, k)
                 /\ HookPatchOf(q) = EmptyObj =>
                       DOMAIN c.locals \subseteq
                          UNION {DOMAIN q.patches[p].props : p \in 1..Len(q.patches)}

\* the hook returned a patch, no route matched, and the response hook was
\* given a context with empty locals
C22_Witness ==
    \E r \in ReqIds :
        LET q == rq[r]
        IN /\ q.pc = "done"
           /\ HookPatchOf(q) = HookPatch
           /\ q.matched = NoMatch
           /\ q.result.response = NotFoundResponse
           /\ Idx(q, {"onResponse"}) # {}
           /\ \A i \in Idx(q, {"onResponse"}) : q.ctxs[q.log[i].ctx].locals = EmptyObj

\* C23: the pre-routing hook is invoked exactly once per request, before
\* route matching and also for requests that match no route, with only the
\* request; whatever it returns it cannot end the request: routing and
\* dispatch follow unless it throws.
C23_PreRoutingHook ==
    /\ [](\A r \in ReqIds :
            LET q == rq[r]
            IN /\ ~onRequest => Idx(q, {"onRequest"}) = {}
               /\ (onRequest /\ q.pc \notin {"idle", "fetch"})
                  => /\ Cardinality(Idx(q, {"onRequest"})) = 1
                     /\ q.log[1].ev = "onRequest"
                     /\ q.log[1].ctx = 0
                     /\ \A i \in Idx(q, {"match"}) : i = 2
                     /\ (q.pc \in {"done", "rejected", "catch", "onError"}) =>
                           \/ Idx(q, {"match"}) # {}
                           \/ q.thrown # Undefined /\ q.thrown.by = "onRequest")
    /\ \A r \in {1} :
          (rq[r].pc = "onRequest")
             ~> (Idx(rq[r], {"match"}) # {}
                 \/ (rq[r].thrown # Undefined /\ rq[r].pc # "onRequest"))

\* the hook returned a value that is neither nothing nor a plain patch, and
\* a request that matches no route was still routed and answered 404
C23_Witness ==
    \E r \in ReqIds :
        LET q == rq[r]
        IN /\ q.pc = "done"
           /\ onRequest
           /\ q.initialLocals = [t |-> "response"]
           /\ q.log[1].ev = "onRequest"
           /\ q.log[2].ev = "match"
           /\ q.matched = NoMatch
           /\ q.result.response = NotFoundResponse

----------------------------------------------------------------------------
(* Properties of the dispatch's outcome *)

\* the dispatch's response is the handler's, a denying guard's, or the
\* fixed 404 of a request no route matched
UserOr404(q) ==
    \/ /\ q.result.response \in HandlerResponses
       /\ Idx(q, {"handler"}) # {}
    \/ /\ \E d \in Idx(q, {"guardDeny"}) : q.result.response = DenyResponse(q.log[d].arg)
    \/ /\ q.result.response = NotFoundResponse
       /\ q.matched = NoMatch

\* C24: the final response of a request is the matched handler's response,
\* a denying guard's response or the fixed 404 (each possibly replaced by the
\* response hook), or else the error-boundary hook's response; the framework
\* produces no 400, 401, 403 or other response of its own.
C24_NoFrameworkResponses ==
    \A r \in ReqIds :
        LET q == rq[r]
        IN /\ q.result # Undefined => UserOr404(q)
           /\ q.pc = "done" =>
                 IF q.thrown = Undefined
                 THEN /\ q.result # Undefined
                      /\ \/ q.final = q.result.response
                         \/ q.final = WrappedResponse /\ Idx(q, {"onResponseReturn"}) # {}
                 ELSE /\ Idx(q, {"onError"}) # {}
                      /\ q.final = IF onError = "default"
                                   THEN DefaultErrorResponse
                                   ELSE CustomErrorResponse

\* POST /items/1 with a body that is not JSON and a failing params schema,
\* no response hook: the final response is the handler's own
C24_Witness ==
    \E r \in ReqIds :
        LET q == rq[r]
        IN /\ q.pc = "done"
           /\ ~onResponse
           /\ q.input # Undefined /\ ~q.input.ok
           /\ q.input.failed = <<"params", "body">>
           /\ q.final = Resp(400, "bad input", "handler")
           /\ q.final = q.result.response

\* C25: the handler is invoked at most once, and only after a route matched,
\* the validation gate returned an input state and every guard of the route
\* allowed; it receives the context holding the raw values, the input state
\* and all accumulated locals, and its response is the dispatch's result.
C25_HandlerOnceFullyAssembled ==
    \A r \in ReqIds :
        LET q == rq[r]
            allows == SelectSeq(q.log, LAMBDA e : e.ev = "guardAllow")
        IN /\ Cardinality(Idx(q, {"handler"})) <= 1
           /\ \A h \in Idx(q, {"handler"}) :
                 LET c == q.ctxs[q.log[h].ctx]
                 IN /\ q.matched # NoMatch
                    /\ q.input # Undefined
                    /\ Idx(q, {"guardDeny", "guardThrow"}) = {}
                    /\ [k \in 1..Len(allows) |-> allows[k].arg] = q.matched.handler.guards
                    /\ \A k \in Idx(q, {"guard", "guardAllow", "validate", "readBody"}) : k < h
                    /\ c.request = r
                    /\ c.raw = Raw(q.matched.params, q.query, q.body.parsed)
                    /\ c.input = q.input
                    /\ c.locals = LastWins(<<HookPatchOf(q)>>
                                           \o [i \in 1..Len(q.patches) |-> q.patches[i].props])
                    /\ q.result # Undefined =>
                          /\ q.result.response \in HandlerResponses
                          /\ q.result.context = q.log[h].ctx

\* POST /users with a JSON body: three guards allowed, two of them with
\* locals, and the handler's 200 is the result of the dispatch
C25_Witness ==
    \E r \in ReqIds :
        LET q == rq[r]
        IN /\ q.result # Undefined
           /\ q.result.response = Resp(200, "ok", "handler")
           /\ q.matched.handler.guards = <<"g1", "g2", "g3">>
           /\ Len(q.patches) = 2
           /\ q.input.ok
           /\ q.ctxs[q.result.context].raw.body = JsonObj

----------------------------------------------------------------------------
(* Properties of requests in flight together *)

\* the locals a request's contexts may hold: its own hook's contribution
\* merged with a prefix of its own guards' locals
OwnLocals(q) ==
    { LastWins(<<HookPatchOf(q)>> \o [i \in 1..n |-> q.patches[i].props]) :
         n \in 0..Len(q.patches) }

\* C26: with several requests in flight, interleaved at every await, each
\* context a request's guards, handler and hooks observe holds that request's
\* own raw values and input state and only locals the request's own hook and
\* guards contributed, also when the hook returns one and the same object
\* for every request; that object is never written.
C26_RequestsDoNotInterfere ==
    /\ sharedLocals = HookPatch
    /\ \A r \in ReqIds :
          LET q == rq[r]
          IN /\ \A i \in 1..Len(q.ctxs) :
                   LET c == q.ctxs[i]
                   IN /\ c.request = r
                      /\ \/ c = MinimalContext(r)
                         \/ /\ q.matched # NoMatch
                            /\ q.matched = Match(handlers, q.request.method, q.request.url)
                            /\ c.raw = Raw(q.matched.params, ParseQuery(q.request.url),
                                           q.body.parsed)
                            /\ q.request.body.t = "stream" =>
                                  q.body = ParseBodyText(q.request.body.text)
                            /\ c.input = q.input
                            /\ c.locals \in OwnLocals(q)
             /\ q.cur > 0 =>
                   q.ctxs[q.cur].locals =
                      LastWins(<<HookPatchOf(q)>>
                               \o [i \in 1..Len(q.patches) |-> q.patches[i].props])
             /\ \A i \in 1..Len(q.log) : q.log[i].ctx \in 0..Len(q.ctxs)

\* two requests in flight, both given the hook's shared object: the GET's
\* guards have contributed locals and its handler is running; the POST built
\* its context afterwards and its handler runs with the hook's locals only
C26_Witness ==
    \E r1, r2 \in ReqIds :
        /\ r1 # r2
        /\ rq[r1].initialLocals = SharedRef
        /\ rq[r2].initialLocals = SharedRef
        /\ rq[r1].request.method = "GET"
        /\ rq[r2].request.method = "POST"
        /\ rq[r1].pc = "inHandler"
        /\ Len(rq[r1].patches) = 2
        /\ rq[r2].pc = "inHandler"
        /\ rq[r2].ctxs[rq[r2].cur].locals = HookPatch
        /\ rq[r1].ctxs[rq[r1].cur].locals # HookPatch
        /\ rq[r1].ctxs[rq[r1].cur].raw.body = Undefined
        /\ rq[r2].ctxs[rq[r2].cur].raw.body = JsonObj

----------------------------------------------------------------------------
(* Properties of the default error boundary *)

\* the request ended after something was thrown
EndedAfterThrow(q) == q.thrown # Undefined /\ q.pc \in {"done", "rejected"}

\* C27: with no custom error-boundary hook, every request in which something
\* was thrown ends with the fixed response 500 {"error": "Internal Server
\* Error"}, whatever was thrown and whatever the request was.
C27_DefaultBoundaryAlways500 ==
    \A r \in ReqIds :
        (onError = "default" /\ EndedAfterThrow(rq[r]))
        => /\ rq[r].pc = "done"
           /\ rq[r].final = DefaultErrorResponse

\* default error boundary, the response hook threw undefined after the
\* handler had answered: fetch rejected and no 500 was produced
C27_Witness ==
    \E r \in ReqIds :
        LET q == rq[r]
        IN /\ onError = "default"
           /\ q.pc = "rejected"
           /\ q.thrown = Thrown("nullish", "onResponse")
           /\ q.final = Undefined
           /\ Idx(q, {"onError"}) = {}

----------------------------------------------------------------------------
(* Properties of group *)

\* the handlers of an expression in the order written, each with the guards
\* of the groups around it, outermost first, before its own
RECURSIVE Written(_, _), WrittenFrom(_, _, _)
Written(e, around) ==
    IF e.t = "handler"
    THEN <<[id |-> e.id, guards |-> around \o OrNoGuards(e.guards)]>>
    ELSE WrittenFrom(e.items, 1,
                     IF e.t = "group" THEN around \o OrNoGuards(e.guards) ELSE around)
WrittenFrom(items, i, around) ==
    IF i > Len(items) THEN <<>>
    ELSE Written(items[i], around) \o WrittenFrom(items, i + 1, around)

\* C28: for handlers composed through nested group() calls, the guard list
\* of each resulting handler is the outermost group's guards, then each inner
\* group's guards from outer to inner, then the route's own guards, each
\* level in its given order.
C28_GroupGuardsOuterFirst ==
    groupOut # Undefined =>
        [k \in 1..Len(groupOut.items) |-> OrNoGuards(groupOut.items[k].guards)]
        = [k \in 1..Len(Written(groupIn, <<>>)) |-> Written(groupIn, <<>>)[k].guards]

\* group({ guards: [q, s], handlers: [a, group({ guards: [p], handlers:
\* [group({ guards: [q, s], handlers: [b, a] })] })] })
C28_Witness ==
    /\ groupIn = GroupExpr(<<Handler("a", Undefined),
                             GroupExpr(<<GroupExpr(<<Handler("b", List(<<"own">>)),
                                                     Handler("a", Undefined)>>,
                                                   List(<<"q", "s">>))>>,
                                       List(<<"p">>))>>,
                           List(<<"q", "s">>))
    /\ groupOut = Arr(<< NewHandler(Handler("a", Undefined), NewList(<<"q", "s">>)),
                         NewHandler(Handler("b", List(<<"own">>)),
                                    NewList(<<"q", "s", "p", "q", "s", "own">>)),
                         NewHandler(Handler("a", Undefined),
                                    NewList(<<"q", "s", "p", "q", "s">>)) >>)

\* C29: group() returns the depth-first, left-to-right flattening of its
\* handlers argument for any mix and nesting of single handlers and arrays:
\* every handler written appears once for each time it is written, in the
\* order written, and nothing else does.
C29_GroupFlattensInOrder ==
    groupOut # Undefined =>
        /\ \A k \in 1..Len(groupOut.items) : groupOut.items[k].t = "handler"
        /\ [k \in 1..Len(groupOut.items) |-> groupOut.items[k].id]
           = [k \in 1..Len(Written(groupIn, <<>>)) |-> Written(groupIn, <<>>)[k].id]

\* group({ handlers: [a, [b, [b, a]]] })
C29_Witness ==
    /\ groupIn = GroupExpr(<<Handler("a", Undefined),
                             Arr(<<Handler("b", List(<<"own">>)),
                                   Arr(<<Handler("b", List(<<"own">>)),
                                         Handler("a", Undefined)>>)>>)>>,
                           Undefined)
    /\ groupOut = Arr(<< Handler("a", Undefined), Handler("b", List(<<"own">>)),
                         Handler("b", List(<<"own">>)), Handler("a", Undefined) >>)

----------------------------------------------------------------------------
(* Properties of parseQuery *)

\* the values a key has in the query string, in query-string order
ValuesOf(url, key) ==
    LET own == SelectSeq(url.query, LAMBDA p : p.key = key)
    IN [i \in 1..Len(own) |-> own[i].value]

KeysOf(url) == {url.query[i].key : i \in 1..Len(url.query)}

\* C30: for every key in the URL's query string, raw.query maps the key to a
\* single string when the key occurs once and to the list of all its values,
\* in query-string order, when it occurs two or more times; raw.query has no
\* other keys and no other kinds of value.
C30_QueryScalarOrList ==
    queryOut # Undefined =>
        /\ DOMAIN queryOut.props = KeysOf(queryIn)
        /\ \A k \in DOMAIN queryOut.props :
              queryOut.props[k] = IF Len(ValuesOf(queryIn, k)) = 1
                                  THEN Str(ValuesOf(queryIn, k)[1])
                                  ELSE List(ValuesOf(queryIn, k))

\* ?tag=a&toString=b&tag=b : tag is the list [a, b], but toString, given
\* once, is an array of Object.prototype.toString and "b"
C30_Witness ==
    /\ queryIn = [path |-> <<"search">>,
                  query |-> <<Pair("tag", "a"), Pair("toString", "b"), Pair("tag", "b")>>]
    /\ queryOut # Undefined
    /\ queryOut.props["tag"] = List(<<"a", "b">>)
    /\ queryOut.props["toString"] = MixedList(Inherited("toString"), <<"b">>)

----------------------------------------------------------------------------
(* Properties of the input state's values *)

\* C31: on success, the validated value of each part that declared a schema
\* is the value the validator adapter returned for that part (possibly
\* transformed), and the value of each part without a schema is that part's
\* raw value unchanged.
C31_SuccessValues ==
    (gateOut # Undefined /\ gateOut.t = "return" /\ gateOut.input.ok)
    => \A p \in {"params", "query", "body"} :
          gateOut.input[p] = IF Declared(gateIn, p)
                             THEN gateIn.results[p].value
                             ELSE gateIn.raw[p]

\* params and body declared, query not; the adapter coerces the params and
\* returns the body as given: success with the coerced params, the raw query
\* and the body
C31_Witness ==
    /\ gateOut # Undefined
    /\ gateIn.schemas = Schemas(TRUE, FALSE, TRUE)
    /\ gateIn.body = Stream(ValidJson)
    /\ gateIn.kinds.params = "okCoerced"
    /\ gateIn.kinds.body = "ok"
    /\ gateOut.t = "return"
    /\ gateOut.input.ok
    /\ gateOut.input.params = Coerced(GateParams)
    /\ gateOut.input.query = gateIn.raw.query
    /\ gateOut.input.body = JsonObj

\* the raw error a failing part supplied: the body's parse error, or the
\* error of the adapter's result
RawErrorOf(in, p) ==
    IF p = "body" /\ in.bodyParseError # Undefined
    THEN in.bodyParseError
    ELSE in.results[p].error

FailedSet(input) == {input.failed[i] : i \in 1..Len(input.failed)}

\* C34: on failure, received holds the raw values of all three parts,
\* whichever parts declared a schema or failed; the errors map has an entry
\* exactly for the failing parts that supplied a raw error and is absent when
\* none did; a body parse error is always recorded under body.
C34_ReceivedAndErrors ==
    (gateOut # Undefined /\ gateOut.t = "return" /\ ~gateOut.input.ok)
    => LET input == gateOut.input
           withError == {p \in FailedSet(input) : RawErrorOf(gateIn, p) # Undefined}
       IN /\ input.received = gateIn.raw
          /\ (input.errors = Undefined) <=> (withError = {})
          /\ input.errors # Undefined =>
                /\ DOMAIN input.errors = withError
                /\ \A p \in withError : input.errors[p] = RawErrorOf(gateIn, p)
          /\ (Declared(gateIn, "body") /\ gateIn.bodyParseError # Undefined) =>
                /\ input.errors # Undefined
                /\ input.errors.body = gateIn.bodyParseError

\* only the query and the body declare a schema; the query fails without a
\* raw error and the body is not JSON: received still has the params, and
\* errors has the body's parse error only
C34_Witness ==
    /\ gateOut # Undefined
    /\ gateIn.schemas = Schemas(FALSE, TRUE, TRUE)
    /\ gateIn.kinds.query = "fail"
    /\ gateIn.body = Stream("not json{")
    /\ gateOut.t = "return"
    /\ ~gateOut.input.ok
    /\ gateOut.input.failed = <<"query", "body">>
    /\ gateOut.input.received.params = GateParams
    /\ gateOut.input.received.body = Undefined
    /\ DOMAIN gateOut.input.errors = {"body"}

----------------------------------------------------------------------------
(* Properties of the order of a request's steps *)

\* the stage of the lifecycle an observable step belongs to; the error
\* boundary is outside the sequence
StageOf(ev) ==
    CASE ev = "onRequest" -> 1
      [] ev = "match" -> 2
      [] ev = "readBody" -> 3
      [] ev = "validate" -> 4
      [] ev \in {"guard", "guardAllow", "guardDeny", "guardThrow"} -> 5
      [] ev = "handler" -> 6
      [] ev \in {"onResponse", "onResponseReturn"} -> 7
      [] OTHER -> 0

PartRank(p) == CASE p = "params" -> 1 [] p = "query" -> 2 [] OTHER -> 3

\* the stage whose callback or read the request is waiting for
Awaiting(q) ==
    CASE q.pc = "onRequest" -> 1
      [] q.pc = "readBody" -> 3
      [] q.pc = "inGuard" -> 5
      [] q.pc = "inHandler" -> 6
      [] OTHER -> 7

\* C32: the observable steps of a request happen one after another in the
\* order pre-routing hook, route match, body read (only with a body
\* schema), validation of params, then query, then body, guards, handler,
\* response hook; while a step of one stage has not completed no step of a
\* later stage has started, so the body has been read and the input
\* validated before the first guard runs.
C32_LifecycleOrder ==
    \A r \in ReqIds :
        LET q == rq[r]
            staged == Idx(q, {"onRequest", "match", "readBody", "validate", "guard",
                              "guardAllow", "guardDeny", "guardThrow", "handler",
                              "onResponse", "onResponseReturn"})
        IN /\ \A i, j \in staged : i < j => StageOf(q.log[i].ev) <= StageOf(q.log[j].ev)
           /\ \A i, j \in Idx(q, {"validate"}) :
                 i < j => PartRank(q.log[i].arg) < PartRank(q.log[j].arg)
           /\ \A i \in staged : StageOf(q.log[i].ev) <= Awaiting(q)
           /\ Idx(q, {"readBody"}) # {} =>
                 /\ Cardinality(Idx(q, {"readBody"})) = 1
                 /\ HasBodySchema(q.matched.handler)
           /\ Idx(q, {"guard", "handler"}) # {} =>
                 /\ q.input # Undefined
                 /\ q.pc # "readBody"
                 /\ Idx(q, {"match"}) # {}
                 /\ onRequest => Idx(q, {"onRequest"}) # {}

\* POST /items/1 with a JSON body, every hook configured: the hook, the
\* match, the read, the three validations in order, then the handler and the
\* response hook
C32_Witness ==
    \E r \in ReqIds :
        LET q == rq[r]
        IN /\ q.pc = "done"
           /\ [i \in 1..Len(q.log) |-> q.log[i].ev]
              = <<"onRequest", "match", "readBody", "validate", "validate", "validate",
                  "handler", "onResponse", "onResponseReturn">>
           /\ [i \in 4..6 |-> q.log[i].arg] = [i \in 4..6 |-> Parts[i - 3]]

----------------------------------------------------------------------------
(* Properties of maxBodyBytes *)

\* C33: when the handler of a route guarded by maxBodyBytes(n) runs, the
\* request's body is at most n bytes.
C33_HandlerBodyWithinLimit ==
    (limitOut # Undefined /\ limitOut.handler)
    => limitIn.bodyBytes <= limitIn.maxBytes

\* maxBodyBytes(1), a streamed body of 3 bytes without a Content-Length
\* header: the guard allowed and the handler ran
C33_Witness ==
    /\ limitOut # Undefined
    /\ limitIn.maxBytes = 1
    /\ limitIn.bodyBytes = 3
    /\ limitIn.contentLength = NoHeader
    /\ limitOut.guard = Allow
    /\ limitOut.handler

----------------------------------------------------------------------------
(* Properties of the not-found branch *)

\* the dispatch returned for a request that no route matched
Unrouted(q) == q.matched = NoMatch /\ q.result # Undefined

----------------------------------------------------------------------------
(* Properties of what the guard chain leaves alone *)

\* the contexts the request's guards, handler and response hook were given
ObservedContexts(q) ==
    {q.ctxs[q.log[i].ctx] : i \in Idx(q, {"guard", "handler", "onResponse"})}

\* C36: the guard chain changes only locals: the request, the raw values
\* (params, query, body) and the input state in the context passed to every
\* guard, to the handler and to the response hook are the values extraction
\* and validation computed once, whatever the guards return.
C36_GuardsChangeOnlyLocals ==
    \A r \in ReqIds :
        LET q == rq[r]
        IN /\ \A c, d \in ObservedContexts(q) :
                 c.request = d.request /\ c.raw = d.raw /\ c.input = d.input
           /\ q.matched # NoMatch =>
                 \A c \in ObservedContexts(q) :
                    /\ c.request = r
                    /\ c.raw.params = PatternGroups(q.matched.handler.path, q.request.url)
                    /\ c.raw.query = ParseQuery(q.request.url)
                    /\ c.raw.body = q.body.parsed
                    /\ c.input = q.input

\* GET /users/1: g1 and g2 both contributed locals, the params schema had
\* failed; the response hook's context differs from the first guard's in its
\* locals and in nothing else
C36_Witness ==
    \E r \in ReqIds :
        LET q == rq[r]
        IN /\ Idx(q, {"onResponse"}) # {}
           /\ Len(q.patches) = 2
           /\ ~q.input.ok
           /\ \E i \in Idx(q, {"guard"}), j \in Idx(q, {"onResponse"}) :
                 LET c == q.ctxs[q.log[i].ctx]
                     d == q.ctxs[q.log[j].ctx]
                 IN /\ c.locals # d.locals
                    /\ c.raw = d.raw
                    /\ c.input = d.input
                    /\ c.raw.params = [k \in {"id"} |-> "1"]

----------------------------------------------------------------------------
(* Properties of the error boundary's response *)

\* C37: after the error-boundary hook has been invoked for a request, the
\* response hook is not invoked: the error boundary's response is returned
\* by fetch as it is and never passes through the response hook.
C37_BoundaryResponseSkipsResponseHook ==
    \A r \in ReqIds :
        LET q == rq[r]
        IN \A e \in Idx(q, {"onError"}) :
              /\ \A i \in Idx(q, {"onResponse", "onResponseReturn"}) : i < e
              /\ Idx(q, {"onResponseReturn"}) = {}
              /\ q.pc = "done" =>
                    /\ q.final = IF onError = "default"
                                 THEN DefaultErrorResponse
                                 ELSE CustomErrorResponse
                    /\ q.log[Len(q.log)].ev = "onError"

\* a response hook is configured and the handler threw: the custom error
\* boundary answered and the response hook never ran
C37_Witness ==
    \E r \in ReqIds :
        LET q == rq[r]
        IN /\ onResponse
           /\ onError = "custom"
           /\ q.pc = "done"
           /\ q.thrown = Thrown("error", "handler")
           /\ q.final = CustomErrorResponse
           /\ Idx(q, {"onError"}) # {}
           /\ Idx(q, {"onResponse"}) = {}

----------------------------------------------------------------------------
(* Properties of parseBody's failures *)

\* the body's read has ended and validation has run
ReadAndValidated(q) ==
    Idx(q, {"readBody"}) # {} /\ q.pc \notin {"readBody", "validate"}

\* C38: parseBody never raises: a failure while reading or parsing the body,
\* including a failed read of an already consumed stream, becomes the same
\* parse-error signal as malformed JSON; it surfaces as the "Invalid JSON"
\* issue on the body part and never reaches the error boundary.
C38_ParseBodyNeverRaises ==
    \A r \in ReqIds :
        LET q == rq[r]
        IN /\ q.body.error # Undefined => q.body.error.t = "SyntaxError"
           /\ ReadAndValidated(q) =>
                 \/ /\ q.input # Undefined
                    /\ q.body.error # Undefined =>
                          /\ ~q.input.ok
                          /\ IssuesOf(q.input, "body") = <<Issue("body", "Invalid JSON")>>
                          /\ q.input.errors.body = q.body.error
                          /\ q.input.received.body = Undefined
                    /\ q.thrown # Undefined =>
                          q.thrown.by \notin {"validator", "validateInputs", "parseBody"}
                 \/ /\ q.input = Undefined
                    /\ q.thrown # Undefined
                    /\ q.thrown.by \in {"validator", "validateInputs"}

\* POST /users with a JSON body whose stream could not be read: the handler
\* ran with the "Invalid JSON" issue and the request ended without the error
\* boundary
C38_Witness ==
    \E r \in ReqIds :
        LET q == rq[r]
        IN /\ q.pc = "done"
           /\ q.request.body = Stream(ValidJson)
           /\ q.body = ParseBodyReadFailed
           /\ Idx(q, {"handler"}) # {}
           /\ Idx(q, {"onError"}) = {}
           /\ q.input.failed = <<"body">>
           /\ q.input.issues = <<Issue("body", "Invalid JSON")>>

----------------------------------------------------------------------------
(* Properties of what group leaves alone *)

\* the handlers of an expression in the order written, each with whether a
\* group with a non-empty guard list is around it
RECURSIVE WrittenLeaves(_, _), WrittenLeavesFrom(_, _, _)
WrittenLeaves(e, guarded) ==
    IF e.t = "handler"
    THEN <<[leaf |-> e, guarded |-> guarded]>>
    ELSE WrittenLeavesFrom(e.items, 1,
                           guarded \/ (e.t = "group" /\ OrNoGuards(e.guards) # <<>>))
WrittenLeavesFrom(items, i, guarded) ==
    IF i > Len(items) THEN <<>>
    ELSE WrittenLeaves(items[i], guarded) \o WrittenLeavesFrom(items, i + 1, guarded)

\* C39: group() never modifies the route descriptors or guard lists it is
\* given: under a non-empty guard list it returns new descriptors whose guard
\* lists are new lists, otherwise it returns the very descriptors it was
\* given, unchanged; a handler written in several groups, or grouped
\* repeatedly, gets no guards accumulated on the original.
C39_GroupLeavesInputsAlone ==
    groupOut # Undefined =>
        LET w == WrittenLeaves(groupIn, FALSE)
        IN /\ Len(groupOut.items) = Len(w)
           /\ \A k \in 1..Len(w) :
                 LET h == groupOut.items[k]
                 IN IF w[k].guarded
                    THEN /\ "copy" \in DOMAIN h
                         /\ h.id = w[k].leaf.id
                         /\ "fresh" \in DOMAIN h.guards
                    ELSE h = w[k].leaf

\* group({ handlers: [b, group({ guards: [p], handlers: [b, a] })] }): the
\* first b is the descriptor given, the second a new one with a new list
C39_Witness ==
    /\ groupIn = GroupExpr(<<Handler("b", List(<<"own">>)),
                             GroupExpr(<<Handler("b", List(<<"own">>)),
                                         Handler("a", Undefined)>>,
                                       List(<<"p">>))>>,
                           Undefined)
    /\ groupOut = Arr(<< Handler("b", List(<<"own">>)),
                         NewHandler(Handler("b", List(<<"own">>)), NewList(<<"p", "own">>)),
                         NewHandler(Handler("a", Undefined), NewList(<<"p">>)) >>)

====
